---- MODULE Spec2Model ----
(***************************************************************************)
(* A model of github_projects_automation.py: the set-field and bulk-update *)
(* commands, GitHubProjectsAPI.update_field_value (the field update        *)
(* dispatcher) and the catalog fetch it rests on.                          *)
(*                                                                         *)
(* Python strings that the code inspects character by character (field     *)
(* names, option names, iteration titles, values, CSV cells) are sequences *)
(* of one-character strings; opaque ids and enum tags are TLA+ strings.    *)
(***************************************************************************)
EXTENDS Integers, Sequences, FiniteSets, TLC

(***************************************************************************)
(* Bounds of the model.                                                    *)
(***************************************************************************)
\* longest generated value handed to a NUMBER field
MaxNumLen == 3
\* most characters put before and after a base date
MaxPad == 1
\* most data lines of a CSV file
MaxRows == 2
\* most executor failures (transport, HTTP, JSON) in one run
MaxFaults == 1

(***************************************************************************)
(* Strings.                                                                *)
(***************************************************************************)
\* the characters str.strip() removes and float() skips
Whitespace == {" ", "\t", "\n"}

\* \d of a str pattern: the ASCII digits and every other Unicode decimal
\* digit, of which "U+0663" (ARABIC-INDIC DIGIT THREE) stands for the rest
AsciiDigits == {"0", "1", "2", "3", "4", "5", "6", "7", "8", "9"}
UnicodeDigits == AsciiDigits \cup {"U+0663"}

RECURSIVE lstrip(_)
lstrip(s) ==
    IF s # <<>> /\ Head(s) \in Whitespace THEN lstrip(Tail(s)) ELSE s

RECURSIVE rstrip(_)
rstrip(s) ==
    IF s # <<>> /\ s[Len(s)] \in Whitespace
    THEN rstrip(SubSeq(s, 1, Len(s) - 1))
    ELSE s

\* str.strip()
strip(s) == rstrip(lstrip(s))

\* str.lower() on the letters the model uses
LowerChar(c) ==
    CASE c = "A" -> "a" [] c = "D" -> "d" [] c = "E" -> "e" [] c = "F" -> "f"
      [] c = "I" -> "i" [] c = "N" -> "n" [] c = "S" -> "s" [] c = "T" -> "t"
      [] c = "Y" -> "y" [] OTHER -> c

Lower(s) == [i \in 1..Len(s) |-> LowerChar(s[i])]

\* all strings over alphabet A of length at most n
RECURSIVE StringsUpTo(_, _)
StringsUpTo(A, n) ==
    IF n = 0 THEN {<<>>}
    ELSE LET shorter == StringsUpTo(A, n - 1)
         IN  shorter \cup {Append(s, c) : s \in shorter, c \in A}

(***************************************************************************)
(* float(value) on a str: the value it returns, or ValueError.             *)
(***************************************************************************)
DigitVal(c) ==
    CASE c = "0" -> 0 [] c = "1" -> 1 [] c = "2" -> 2 [] c = "3" -> 3
      [] c = "4" -> 4 [] c = "5" -> 5 [] c = "6" -> 6 [] c = "7" -> 7
      [] c = "8" -> 8 [] c = "9" -> 9

\* float() first maps every Unicode decimal digit to its ASCII digit and
\* every Unicode space to an ASCII one
ToAsciiChar(c) == IF c = "U+0663" THEN "3" ELSE c

ToAscii(s) == [i \in 1..Len(s) |-> ToAsciiChar(s[i])]

\* an underscore is legal only between two digits
UnderscoresOK(s) ==
    \A i \in 1..Len(s) :
        s[i] = "_" =>
            /\ i > 1 /\ s[i - 1] \in AsciiDigits
            /\ i < Len(s) /\ s[i + 1] \in AsciiDigits

RECURSIVE RemoveUnderscores(_)
RemoveUnderscores(s) ==
    IF s = <<>> THEN <<>>
    ELSE IF Head(s) = "_" THEN RemoveUnderscores(Tail(s))
    ELSE <<Head(s)>> \o RemoveUnderscores(Tail(s))

\* length of the longest prefix of s made of ASCII digits
RECURSIVE DigitPrefixLen(_)
DigitPrefixLen(s) ==
    IF s # <<>> /\ Head(s) \in AsciiDigits
    THEN 1 + DigitPrefixLen(Tail(s))
    ELSE 0

Drop(s, n) == SubSeq(s, n + 1, Len(s))

RECURSIVE DigitsToNat(_)
DigitsToNat(s) ==
    IF s = <<>> THEN 0
    ELSE 10 * DigitsToNat(SubSeq(s, 1, Len(s) - 1)) + DigitVal(s[Len(s)])

RECURSIVE NumDigits(_)
NumDigits(m) == IF m < 10 THEN 1 ELSE 1 + NumDigits(m \div 10)

\* a finite decimal m * 10^e with no trailing zero in m (zero is 0 * 10^0)
RECURSIVE Normalise(_, _)
Normalise(m, e) ==
    IF m = 0 THEN [m |-> 0, e |-> 0]
    ELSE IF m % 10 = 0 THEN Normalise(m \div 10, e + 1)
    ELSE [m |-> m, e |-> e]

FloatInf(neg) == [kind |-> "inf", neg |-> neg, m |-> 0, e |-> 0]
FloatNan == [kind |-> "nan", neg |-> FALSE, m |-> 0, e |-> 0]

\* The double nearest to (-1)^neg * m * 10^e, named by its decimal. A value
\* beyond the largest double becomes an infinity and one below the smallest
\* subnormal a signed zero; at the two boundary exponents (308, where
\* the largest double is 1.797...e308, and -324, where half the smallest
\* subnormal is 2.47...e-324) this is exact for a leading digit 1, the only
\* one the value sets of the model put there.
FloatFinite(neg, m, e) ==
    LET n == Normalise(m, e)
        adj == NumDigits(n.m) + n.e - 1
    IN  IF n.m # 0 /\ adj > 308 THEN FloatInf(neg)
        ELSE IF n.m # 0 /\ adj < -323
             THEN [kind |-> "finite", neg |-> neg, m |-> 0, e |-> 0]
        ELSE [kind |-> "finite", neg |-> neg, m |-> n.m, e |-> n.e]

ValueError == [ok |-> FALSE, val |-> FloatNan]

sInf == <<"i", "n", "f">>
sInfinity == <<"i", "n", "f", "i", "n", "i", "t", "y">>
sNan == <<"n", "a", "n">>

\* the decimal body after the sign: digits [. digits] [e [sign] digits],
\* with at least one digit before the exponent, read to the end
ParseDecimal(neg, t) ==
    LET n1 == DigitPrefixLen(t)
        r1 == Drop(t, n1)
        hasDot == r1 # <<>> /\ Head(r1) = "."
        r2 == IF hasDot THEN Tail(r1) ELSE r1
        n2 == IF hasDot THEN DigitPrefixLen(r2) ELSE 0
        r3 == Drop(r2, n2)
        mant == SubSeq(t, 1, n1) \o SubSeq(r2, 1, n2)
        hasE == r3 # <<>> /\ Head(r3) \in {"e", "E"}
        r4 == IF hasE THEN Tail(r3) ELSE r3
        hasSign == hasE /\ r4 # <<>> /\ Head(r4) \in {"+", "-"}
        eneg == hasSign /\ Head(r4) = "-"
        r5 == IF hasSign THEN Tail(r4) ELSE r4
        n3 == IF hasE THEN DigitPrefixLen(r5) ELSE 0
        r6 == Drop(r5, n3)
        ex == DigitsToNat(SubSeq(r5, 1, n3))
    IN  IF mant = <<>> \/ (hasE /\ n3 = 0) \/ r6 # <<>> THEN ValueError
        ELSE [ok |-> TRUE,
              val |-> FloatFinite(neg, DigitsToNat(mant),
                                  (IF eneg THEN 0 - ex ELSE ex) - n2)]

\* float(s) for a str s
float(s) ==
    LET a == ToAscii(s)
        t == strip(RemoveUnderscores(a))
        signed == t # <<>> /\ Head(t) \in {"+", "-"}
        neg == signed /\ Head(t) = "-"
        body == IF signed THEN Tail(t) ELSE t
    IN  IF ~UnderscoresOK(a) THEN ValueError
        ELSE IF Lower(body) \in {sInf, sInfinity} THEN [ok |-> TRUE, val |-> FloatInf(neg)]
        ELSE IF Lower(body) = sNan THEN [ok |-> TRUE, val |-> FloatNan]
        ELSE ParseDecimal(neg, body)

(***************************************************************************)
(* re.match(r'^\d{4}-\d{2}-\d{2}$', value): without re.MULTILINE "^" is    *)
(* the start of the string and "$" is its end or the place just before a   *)
(* newline that ends it.                                                   *)
(***************************************************************************)
DatePattern == <<"d", "d", "d", "d", "-", "d", "d", "-", "d", "d">>

\* the pattern's items matched one by one against the characters of s from
\* position 1; the number of characters consumed, or -1 for no match
MatchItems(s) ==
    IF /\ Len(s) >= Len(DatePattern)
       /\ \A i \in 1..Len(DatePattern) :
              IF DatePattern[i] = "d" THEN s[i] \in UnicodeDigits ELSE s[i] = "-"
    THEN Len(DatePattern)
    ELSE -1

DollarAt(s, pos) ==
    \/ pos = Len(s)
    \/ pos = Len(s) - 1 /\ s[Len(s)] = "\n"

re_match_date(s) ==
    LET k == MatchItems(s) IN k >= 0 /\ DollarAt(s, k)

(***************************************************************************)
(* Python values and the exceptions the code raises.                       *)
(***************************************************************************)
PyStr(s) == [py |-> "str", s |-> s]
PyFloat(v) == [py |-> "float", v |-> v]

\* raise Exception(f"..."): the kind of message and the strings it cites
Exc(kind, field_name, value, data_type) ==
    [kind |-> kind, field_name |-> field_name, value |-> value,
     data_type |-> data_type]

NoStr == <<"<", "n", "o", "n", "e", ">">>

FieldNotFound(field_name) == Exc("FieldNotFound", field_name, NoStr, "")
InvalidNumber(value) == Exc("InvalidNumber", NoStr, value, "")
InvalidDate(value) == Exc("InvalidDate", NoStr, value, "")
OptionNotFound(value, field_name) == Exc("OptionNotFound", field_name, value, "")
IterationNotFound(value, field_name) ==
    Exc("IterationNotFound", field_name, value, "")
UnsupportedFieldType(data_type) ==
    Exc("UnsupportedFieldType", NoStr, NoStr, data_type)
\* _execute_gh_command: the gh command failed or its output is not JSON
ExecutorError == Exc("ExecutorError", NoStr, NoStr, "")
ProjectNotFound == Exc("ProjectNotFound", NoStr, NoStr, "")
UpdateFailed == Exc("UpdateFailed", NoStr, NoStr, "")
NoExc == Exc("", NoStr, NoStr, "")

(***************************************************************************)
(* The field catalog: the nodes the server holds and the ProjectField      *)
(* records get_project_fields makes of them.                               *)
(***************************************************************************)
\* fields(first: 50)
FieldsFirst == 50

Node(typename, id, name, dataType, options, iterations, completedIterations) ==
    [typename |-> typename, id |-> id, name |-> name, dataType |-> dataType,
     options |-> options, iterations |-> iterations,
     completedIterations |-> completedIterations]

PlainNode(id, name, dataType) ==
    Node("ProjectV2Field", id, name, dataType, <<>>, <<>>, <<>>)
SelectNode(id, name, options) ==
    Node("ProjectV2SingleSelectField", id, name, "SINGLE_SELECT", options,
         <<>>, <<>>)
IterationNode(id, name, iterations, completedIterations) ==
    Node("ProjectV2IterationField", id, name, "ITERATION", <<>>, iterations,
         completedIterations)

ProjectField(id, name, data_type, options, iterations) ==
    [id |-> id, name |-> name, data_type |-> data_type, options |-> options,
     iterations |-> iterations]

\* field_data.get('options', [])
NodeOptions(node) ==
    IF node.typename = "ProjectV2SingleSelectField" THEN node.options ELSE <<>>

\* ConfiguredIterations with the completed iterations first
CompletedFirst(node) == node.completedIterations \o node.iterations

\* the iterations of a node with a configuration: active, then completed
ConfiguredIterations(node) == node.iterations \o node.completedIterations

\* (... + ...) if field_data.get('configuration') else []
NodeIterations(node) ==
    IF node.typename = "ProjectV2IterationField"
    THEN ConfiguredIterations(node)
    ELSE <<>>

\* the nodes one fields query returns
FieldsPage(nodes) ==
    SubSeq(nodes, 1, IF Len(nodes) < FieldsFirst THEN Len(nodes) ELSE FieldsFirst)

\* get_project_fields, from the response of its fields query
get_project_fields(nodes) ==
    [i \in 1..Len(nodes) |->
        ProjectField(nodes[i].id, nodes[i].name, nodes[i].dataType,
                     NodeOptions(nodes[i]), NodeIterations(nodes[i]))]

(***************************************************************************)
(* update_field_value between the catalog fetch and the mutation request:  *)
(* the field lookup, the branch on data_type and the value checks.         *)
(***************************************************************************)
\* FindField comparing the names without regard to case
RECURSIVE FindFieldIgnoreCaseFrom(_, _, _)
FindFieldIgnoreCaseFrom(fields, field_name, i) ==
    IF i > Len(fields) THEN 0
    ELSE IF Lower(fields[i].name) = Lower(field_name) THEN i
    ELSE FindFieldIgnoreCaseFrom(fields, field_name, i + 1)

FindFieldIgnoreCase(fields, field_name) ==
    FindFieldIgnoreCaseFrom(fields, field_name, 1)

\* next((f for f in fields if f.name == field_name), None), as the index of
\* the field in fields, 0 for None
RECURSIVE FindFieldLastFrom(_, _, _)
RECURSIVE FindFieldFrom(_, _, _)
FindFieldLastFrom(fields, field_name, i) ==
    IF i < 1 THEN 0
    ELSE IF fields[i].name = field_name THEN i
    ELSE FindFieldLastFrom(fields, field_name, i - 1)

\* a lookup that keeps the last field of the name instead of the first
FindFieldLast(fields, field_name) ==
    FindFieldLastFrom(fields, field_name, Len(fields))

FindFieldFrom(fields, field_name, i) ==
    IF i > Len(fields) THEN 0
    ELSE IF fields[i].name = field_name THEN i
    ELSE FindFieldFrom(fields, field_name, i + 1)

FindField(fields, field_name) == FindFieldFrom(fields, field_name, 1)

\* FindOption keeping the last option of that name
FindOptionLast(options, value) ==
    LET hits == {i \in 1..Len(options) : options[i].name = value}
    IN  IF hits = {} THEN 0 ELSE CHOOSE i \in hits : \A j \in hits : j <= i

\* next((opt for opt in field.options if opt['name'] == value), None)
RECURSIVE FindOptionFrom(_, _, _)
FindOptionFrom(options, value, i) ==
    IF i > Len(options) THEN 0
    ELSE IF options[i].name = value THEN i
    ELSE FindOptionFrom(options, value, i + 1)

FindOption(options, value) == FindOptionFrom(options, value, 1)

\* next((it for it in field.iterations if it['title'] == value), None)
RECURSIVE FindIterationFrom(_, _, _)
FindIterationFrom(iterations, value, i) ==
    IF i > Len(iterations) THEN 0
    ELSE IF iterations[i].title = value THEN i
    ELSE FindIterationFrom(iterations, value, i + 1)

FindIteration(iterations, value) == FindIterationFrom(iterations, value, 1)

Raised(exc) == [ok |-> FALSE, exc |-> exc, doc |-> "", vars |-> <<>>]
Built(doc, vars) == [ok |-> TRUE, exc |-> NoExc, doc |-> doc, vars |-> vars]

\* mutation_vars before the branch on the type
BaseVars(project_id, item_id, field_id) ==
    ("projectId" :> project_id) @@ ("itemId" :> item_id) @@ ("fieldId" :> field_id)

\* TextBranch sending the value without the blanks around it
TextBranchStripped(base, value) ==
    Built("text", base @@ ("value" :> PyStr(strip(value))))

TextBranch(base, value) == Built("text", base @@ ("value" :> PyStr(value)))

\* NumberBranch sending the string it was given, not the float it parsed
NumberBranchRaw(base, value) ==
    IF ~float(value).ok THEN Raised(InvalidNumber(value))
    ELSE Built("number", base @@ ("value" :> PyStr(value)))

NumberBranch(base, value) ==
    LET numeric_value == float(value)
    IN  IF ~numeric_value.ok THEN Raised(InvalidNumber(value))
        ELSE Built("number", base @@ ("value" :> PyFloat(numeric_value.val)))

DateBranch(base, value) ==
    IF ~re_match_date(value) THEN Raised(InvalidDate(value))
    ELSE Built("date", base @@ ("value" :> PyStr(value)))

SingleSelectBranch(base, field, field_name, value) ==
    LET option == FindOption(field.options, value)
    IN  IF option = 0 THEN Raised(OptionNotFound(value, field_name))
        ELSE Built("singleSelectOptionId",
                   base @@ ("optionId" :> field.options[option].id))

IterationBranch(base, field, field_name, value) ==
    LET iteration == FindIteration(field.iterations, value)
    IN  IF iteration = 0 THEN Raised(IterationNotFound(value, field_name))
        ELSE Built("iterationId",
                   base @@ ("iterationId" :> field.iterations[iteration].id))

\* TypeBranch treating every type it does not know as TEXT
TypeBranchDefaultText(base, field, field_name, value) ==
    IF field.data_type = "NUMBER" THEN NumberBranch(base, value)
    ELSE IF field.data_type = "DATE" THEN DateBranch(base, value)
    ELSE IF field.data_type = "SINGLE_SELECT"
         THEN SingleSelectBranch(base, field, field_name, value)
    ELSE IF field.data_type = "ITERATION"
         THEN IterationBranch(base, field, field_name, value)
    ELSE TextBranch(base, value)

\* the if/elif chain on field.data_type
TypeBranch(base, field, field_name, value) ==
    IF field.data_type = "TEXT" THEN TextBranch(base, value)
    ELSE IF field.data_type = "NUMBER" THEN NumberBranch(base, value)
    ELSE IF field.data_type = "DATE" THEN DateBranch(base, value)
    ELSE IF field.data_type = "SINGLE_SELECT"
         THEN SingleSelectBranch(base, field, field_name, value)
    ELSE IF field.data_type = "ITERATION"
         THEN IterationBranch(base, field, field_name, value)
    ELSE Raised(UnsupportedFieldType(field.data_type))

\* BuildMutation refusing an empty value before it looks for the field
BuildMutationValueFirst(project_id, fields, item_id, field_name, value) ==
    LET f == FindField(fields, field_name)
    IN  IF value = <<>> THEN Raised(InvalidDate(value))
        ELSE IF f = 0 THEN Raised(FieldNotFound(field_name))
        ELSE TypeBranch(BaseVars(project_id, item_id, fields[f].id),
                        fields[f], field_name, value)

\* from the fetched fields to the mutation request, or to the exception
BuildMutation(project_id, fields, item_id, field_name, value) ==
    LET f == FindField(fields, field_name)
    IN  IF f = 0 THEN Raised(FieldNotFound(field_name))
        ELSE TypeBranch(BaseVars(project_id, item_id, fields[f].id),
                        fields[f], field_name, value)

(***************************************************************************)
(* The strings the inputs of the model are made of.                        *)
(***************************************************************************)
sEmpty == <<>>
sStatus == <<"S", "t", "a", "t", "u", "s">>
sStatusLower == <<"s", "t", "a", "t", "u", "s">>
sStatusUpper == <<"S", "T", "A", "T", "U", "S">>
sStat == <<"S", "t", "a", "t">>
sTatu == <<"t", "a", "t", "u">>
sStatusX == <<"S", "t", "a", "t", "u", "s", "X">>
sStatusPadded == <<" ", "S", "t", "a", "t", "u", "s">>
sSprint == <<"S", "p", "r", "i", "n", "t">>
sNotes == <<"N", "o", "t", "e", "s">>
sNotesPadded == <<" ", "N", "o", "t", "e", "s">>
sPoints == <<"P", "o", "i", "n", "t", "s">>
sDue == <<"D", "u", "e">>
sTitle == <<"T", "i", "t", "l", "e">>
sPriority == <<"P", "r", "i", "o", "r", "i", "t", "y">>
sGhost == <<"G", "h", "o", "s", "t">>
sTodo == <<"T", "o", "d", "o">>
sDone == <<"D", "o", "n", "e">>
sDoneLower == <<"d", "o", "n", "e">>
sDoneUpper == <<"D", "O", "N", "E">>
sDo == <<"D", "o">>
sDoing == <<"D", "o", "i", "n", "g">>
sDonePadded == <<" ", "D", "o", "n", "e">>
sS1 == <<"S", "1">>
sS0 == <<"S", "0">>
sS1Lower == <<"s", "1">>
sS == <<"S">>
sS2 == <<"S", "2">>
sHi == <<"h", "i">>
sHiPadded == <<" ", "h", "i", " ">>
sNewline == <<"\n">>
sBlank == <<" ", " ">>
sAbc == <<"a", "b", "c">>
sPi == <<"3", ".", "1", "4">>
sOne == <<"1">>
sX == <<"x">>
sIT1 == <<"I", "T", "1">>
sIT1Padded == <<" ", "I", "T", "1", " ">>
sIT2 == <<"I", "T", "2">>
sCsvPath == <<"u", "p", "d", "a", "t", "e", "s", ".", "c", "s", "v">>
sDate == <<"2", "0", "2", "4", "-", "0", "1", "-", "1", "5">>
sDateMonth13 == <<"2", "0", "2", "4", "-", "1", "3", "-", "0", "1">>
sDateFeb30 == <<"2", "0", "2", "4", "-", "0", "2", "-", "3", "0">>
sDateUS == <<"0", "1", "-", "1", "5", "-", "2", "0", "2", "4">>
sHuge == <<"1", "e", "9", "9", "9">>
sTiny == <<"-", "1", "e", "-", "9", "9", "9">>
sInfinityNeg == <<"-", "I", "n", "f", "i", "n", "i", "t", "y">>
sNanUpper == <<"N", "a", "N">>
sExp == <<"1", "E", "+", "1">>
sGrouped == <<"1", "_", "0", ".", "0", "_", "1", "e", "1", "_", "0">>
sZeroNeg == <<"-", "0", ".", "0">>
sArabicThree == <<"U+0663">>
sDateArabic == <<"2", "0", "2", "U+0663", "-", "0", "1", "-", "1", "5">>

(***************************************************************************)
(* Catalogs a project may hold.                                            *)
(***************************************************************************)
Opt(id, name) == [id |-> id, name |-> name]
Iter(id, title) == [id |-> id, title |-> title]

\* every handled type, an unhandled one, an option name held twice and an
\* iteration title held by an active and by a completed iteration
MainCatalog ==
    << SelectNode("PVTSSF_1", sStatus,
                  <<Opt("o1", sTodo), Opt("o2", sDone), Opt("o3", sDone)>>),
       IterationNode("PVTIF_2", sSprint, <<Iter("i1", sS1)>>,
                     <<Iter("i2", sS1), Iter("i3", sS0)>>),
       PlainNode("PVTF_3", sNotes, "TEXT"),
       PlainNode("PVTF_4", sPoints, "NUMBER"),
       PlainNode("PVTF_5", sDue, "DATE"),
       PlainNode("PVTF_6", sTitle, "TITLE") >>

\* names that differ from "Status" in case only or are a part of it, a name
\* held twice, and an iteration field whose iterations are all completed
AltCatalog ==
    << PlainNode("PVTF_7", sStatusLower, "TEXT"),
       SelectNode("PVTSSF_8", sStat,
                  <<Opt("o4", sDoneLower), Opt("o5", sDo), Opt("o6", sDoing)>>),
       PlainNode("PVTF_9", sStatusLower, "NUMBER"),
       IterationNode("PVTIF_10", sSprint, <<>>,
                     <<Iter("i4", sS0), Iter("i5", sS1), Iter("i6", sS0)>>),
       PlainNode("PVTF_11", sTatu, "ASSIGNEES") >>

Catalogs == {MainCatalog, AltCatalog, <<>>}

\* the decimal digits of n
RECURSIVE DecimalChars(_)
DecimalChars(n) ==
    IF n < 10 THEN <<ToString(n)>>
    ELSE DecimalChars(n \div 10) \o <<ToString(n % 10)>>

FillerName(i) == <<"f">> \o DecimalChars(i)

\* a project with one field more than a fields query asks for: text fields
\* f1, f2, ... and Priority last
LargeCatalog ==
    [i \in 1..(FieldsFirst + 1) |->
        IF i <= FieldsFirst
        THEN PlainNode("PVTF_" \o ToString(100 + i), FillerName(i), "TEXT")
        ELSE PlainNode("PVTF_" \o ToString(100 + i), sPriority, "TEXT")]

ProjectId == "PVT_1"

(***************************************************************************)
(* The CSV file bulk_update reads through csv.DictReader.                  *)
(***************************************************************************)
NoFile == [exists |-> FALSE, header |-> <<>>, lines |-> <<>>]
CsvFile(header, lines) == [exists |-> TRUE, header |-> header, lines |-> lines]

PyNone == [none |-> TRUE, s |-> <<>>]
Cell(s) == [none |-> FALSE, s |-> s]

Max(S) == CHOOSE x \in S : \A y \in S : y <= x
Min(S) == CHOOSE x \in S : \A y \in S : x <= y

\* row.get(key, '') on the dict DictReader makes of a line: the cell under
\* the last column named key, None (restval) when the line is too short to
\* have it, '' when no column is named key
RowGet(header, cells, key) ==
    LET cols == {i \in 1..Len(header) : header[i] = key}
    IN  IF cols = {} THEN Cell(sEmpty)
        ELSE IF Max(cols) <= Len(cells) THEN Cell(cells[Max(cols)])
        ELSE PyNone

\* DictReader skips the lines that hold no cell at all: the index of the
\* next line it yields after line `from`, 0 when the file is exhausted
NextLine(lines, from) ==
    LET rest == {i \in (from + 1)..Len(lines) : lines[i] # <<>>}
    IN  IF rest = {} THEN 0 ELSE Min(rest)

\* the row read with no cell stripped
ReadRowUnstripped(header, cells) ==
    LET item_id == RowGet(header, cells, "item_id")
        field_name == RowGet(header, cells, "field_name")
        value == RowGet(header, cells, "value")
    IN  IF item_id.none \/ field_name.none \/ value.none
        THEN [raised |-> TRUE, item_id |-> sEmpty, field_name |-> sEmpty,
              value |-> sEmpty]
        ELSE [raised |-> FALSE, item_id |-> item_id.s,
              field_name |-> field_name.s, value |-> value.s]

\* the three .get(...).strip() of a row: the stripped cells, or the
\* AttributeError of None.strip()
ReadRow(header, cells) ==
    LET item_id == RowGet(header, cells, "item_id")
        field_name == RowGet(header, cells, "field_name")
        value == RowGet(header, cells, "value")
    IN  IF item_id.none \/ field_name.none \/ value.none
        THEN [raised |-> TRUE, item_id |-> sEmpty, field_name |-> sEmpty,
              value |-> sEmpty]
        ELSE [raised |-> FALSE, item_id |-> strip(item_id.s),
              field_name |-> strip(field_name.s), value |-> strip(value.s)]

\* not all([item_id, field_name, value])
MissingRequired(r) ==
    r.item_id = sEmpty \/ r.field_name = sEmpty \/ r.value = sEmpty

(***************************************************************************)
(* State.                                                                  *)
(***************************************************************************)
VARIABLES
    cmd,            \* args.command
    dry_run,        \* args.dry_run
    argv,           \* args.args
    file,           \* the file args.args[0] names, for bulk-update
    gh_auth,        \* whether `gh auth status` succeeds
    server_fields,  \* the field nodes of the project on the server
    server_values,  \* the field values of the project's items on the server
    calls,          \* the remote requests issued so far, in order
    faults,         \* how many of them failed
    pc,             \* where the process is
    req,            \* update_field_value's item_id, field_name, value
    project_id,     \* update_field_value's project_id
    fields,         \* update_field_value's fields
    line,           \* the file line the reader yielded last
    row_num,        \* bulk_update's row_num
    updated,        \* bulk_update's updated
    failed,         \* bulk_update's failed
    out,            \* what was printed, in order
    exit_code,      \* the exit status of the process, once pc = "exit"
    now,            \* the least time elapsed, in units of the sleep of a row
    sigint_at,      \* how many requests had been issued when SIGINT arrived
    attempts,       \* history: one record per call of update_field_value
    server_issues,  \* the issues of the repository and their sub-issue links
    pages,          \* the pages the REST server has of the issue list
    url,            \* fetch_all_issues' url
    all_issues,     \* fetch_all_issues' all_issues
    result          \* what fetch_all_issues returned, once it has

vars == <<cmd, dry_run, argv, file, gh_auth, server_fields, server_values,
          calls, faults, pc, req, project_id, fields, line, row_num, updated,
          failed, out, exit_code, now, sigint_at, attempts, server_issues,
          pages, url, all_issues, result>>

inputVars == <<cmd, dry_run, argv, file, gh_auth>>

\* the state of the sub-issue tool's repository and of the issue fetch
toolVars == <<server_issues, pages, url, all_issues, result>>

\* a repository: the numbers of its issues, and its <<parent, sub-issue>> links
Repository(numbers, links) == [numbers |-> numbers, links |-> links]

\* url = None
NoUrl == 0

\* fetch_all_issues has not returned
NotReturned == [returned |-> FALSE, issues |-> <<>>]

\* the sub-issue tool and the issue fetch are not part of the run
ToolsIdle ==
    /\ server_issues = Repository({}, {})
    /\ pages = <<>>
    /\ url = NoUrl
    /\ all_issues = <<>>
    /\ result = NotReturned
bulkCounters == <<line, row_num, updated, failed>>

NoReq == [item_id |-> sEmpty, field_name |-> sEmpty, value |-> sEmpty]
Req(item_id, field_name, value) ==
    [item_id |-> item_id, field_name |-> field_name, value |-> value]

NoValues == [k \in {} |-> k]

Printed(kind, row, exc) ==
    [kind |-> kind, row |-> row, exc |-> exc, updated |-> 0, failed |-> 0]
Summary(u, f) ==
    [kind |-> "summary", row |-> 0, exc |-> NoExc, updated |-> u, failed |-> f]

\* a request: what was asked, of which call of update_field_value, when,
\* the fields the server held when it answered, and how it ended
Call(op, outcome, doc, callvars) ==
    [op |-> op, outcome |-> outcome, attempt |-> Len(attempts), doc |-> doc,
     vars |-> callvars, at |-> now, server |-> server_fields]

Attempt(row, ln, r) ==
    [row |-> row, line |-> ln, req |-> r, state |-> "running", exc |-> NoExc,
     fetched |-> FALSE, fields |-> <<>>, sent |-> FALSE, doc |-> "",
     vars |-> <<>>]

\* no SIGINT so far
NoSignal == -1

InitRun ==
    /\ server_values = NoValues
    /\ calls = <<>>
    /\ pc = "main"
    /\ req = NoReq
    /\ project_id = ""
    /\ fields = <<>>
    /\ line = 0
    /\ row_num = 1
    /\ updated = 0
    /\ failed = 0
    /\ out = <<>>
    /\ exit_code = 0
    /\ now = 0
    /\ sigint_at = NoSignal
    /\ attempts = <<>>

(***************************************************************************)
(* The remote side: what a request may come back with.                     *)
(***************************************************************************)
MayFail == faults < MaxFaults

\* the project id query: the id, an executor error, or no such project
ProjectIdOutcomes == {"ok"} \cup (IF MayFail THEN {"error", "not_found"} ELSE {})

\* the fields query: the nodes, or an executor error
FieldsOutcomes == {"ok"} \cup (IF MayFail THEN {"error"} ELSE {})

\* the mutation: applied and confirmed; refused by the server (a response
\* without the item); an executor error before the server applied it; an
\* executor error after the server applied it
MutationOutcomes ==
    {"ok"} \cup (IF MayFail THEN {"rejected", "error", "reply_lost"} ELSE {})

OutcomeExc(outcome) ==
    CASE outcome = "not_found" -> ProjectNotFound
      [] outcome = "rejected" -> UpdateFailed
      [] OTHER -> ExecutorError

\* value: { text | number | date | singleSelectOptionId | iterationId }
TypedValue(m) ==
    [kind |-> m.doc,
     value |-> IF m.doc = "singleSelectOptionId"
               THEN [py |-> "id", id |-> m.vars["optionId"]]
               ELSE IF m.doc = "iterationId"
               THEN [py |-> "id", id |-> m.vars["iterationId"]]
               ELSE m.vars["value"]]

\* the server applying updateProjectV2ItemFieldValue
Applied(values, m) ==
    (<<m.vars["itemId"], m.vars["fieldId"]>> :> TypedValue(m)) @@ values

(***************************************************************************)
(* The callers' handling of the end of update_field_value.                 *)
(***************************************************************************)
Cur == attempts[Len(attempts)]

\* where bulk_update goes after its except clause
AfterRowFailure == "bulk_loop"

\* Finish with `updated += 1` ahead of the call of update_field_value
FinishCountedBeforeCall(ok, exc, att) ==
    /\ attempts' = [attempts EXCEPT ![Len(attempts)] = att]
    /\ IF cmd = "set-field"
       THEN /\ out' = Append(out, Printed(IF ok THEN "field_updated"
                                          ELSE "field_update_failed", 0, exc))
            /\ exit_code' = IF ok THEN 0 ELSE 1
            /\ pc' = "exit"
            /\ UNCHANGED <<updated, failed>>
       ELSE IF ok
       THEN /\ updated' = updated + 1
            /\ out' = Append(out, Printed("row_updated", row_num, NoExc))
            /\ pc' = "bulk_sleep"
            /\ UNCHANGED <<failed, exit_code>>
       ELSE /\ updated' = updated + 1
            /\ failed' = failed + 1
            /\ out' = Append(out, Printed("row_failed", row_num, exc))
            /\ pc' = AfterRowFailure
            /\ UNCHANGED exit_code

\* Finish with set_field's except clause printing and returning
FinishWithoutExit(ok, exc, att) ==
    /\ attempts' = [attempts EXCEPT ![Len(attempts)] = att]
    /\ IF cmd = "set-field"
       THEN /\ out' = Append(out, Printed(IF ok THEN "field_updated"
                                          ELSE "field_update_failed", 0, exc))
            /\ exit_code' = 0
            /\ pc' = "exit"
            /\ UNCHANGED <<updated, failed>>
       ELSE IF ok
       THEN /\ updated' = updated + 1
            /\ out' = Append(out, Printed("row_updated", row_num, NoExc))
            /\ pc' = "bulk_sleep"
            /\ UNCHANGED <<failed, exit_code>>
       ELSE /\ failed' = failed + 1
            /\ out' = Append(out, Printed("row_failed", row_num, exc))
            /\ pc' = AfterRowFailure
            /\ UNCHANGED <<updated, exit_code>>

\* set_field's and bulk_update's try/except around update_field_value
Finish(ok, exc, att) ==
    /\ attempts' = [attempts EXCEPT ![Len(attempts)] = att]
    /\ IF cmd = "set-field"
       THEN /\ out' = Append(out, Printed(IF ok THEN "field_updated"
                                          ELSE "field_update_failed", 0, exc))
            /\ exit_code' = IF ok THEN 0 ELSE 1
            /\ pc' = "exit"
            /\ UNCHANGED <<updated, failed>>
       ELSE IF ok
       THEN /\ updated' = updated + 1
            /\ out' = Append(out, Printed("row_updated", row_num, NoExc))
            /\ pc' = "bulk_sleep"
            /\ UNCHANGED <<failed, exit_code>>
       ELSE /\ failed' = failed + 1
            /\ out' = Append(out, Printed("row_failed", row_num, exc))
            /\ pc' = AfterRowFailure
            /\ UNCHANGED <<updated, exit_code>>

Raise(exc) == Finish(FALSE, exc, [Cur EXCEPT !.state = "raised", !.exc = exc])

(***************************************************************************)
(* main, set_field, bulk_update.                                           *)
(***************************************************************************)
Main ==
    /\ pc = "main"
    /\ IF ~gh_auth
       THEN /\ out' = Append(out, Printed("not_authenticated", 0, NoExc))
            /\ exit_code' = 1
            /\ pc' = "exit"
       ELSE IF Len(argv) < (IF cmd = "set-field" THEN 3 ELSE 1)
       THEN /\ out' = Append(out, Printed("usage", 0, NoExc))
            /\ exit_code' = 1
            /\ pc' = "exit"
       ELSE /\ pc' = IF cmd = "set-field" THEN "set_field" ELSE "bulk_update"
            /\ UNCHANGED <<out, exit_code>>
    /\ UNCHANGED <<inputVars, toolVars, server_fields, now, sigint_at,
                   server_values, calls, faults, req,
                   project_id, fields, bulkCounters, attempts>>

SetField ==
    /\ pc = "set_field"
    /\ IF dry_run
       THEN /\ out' = Append(out, Printed("dry_run_set", 0, NoExc))
            /\ pc' = "exit"
            /\ UNCHANGED <<req, attempts>>
       ELSE /\ req' = Req(argv[1], argv[2], argv[3])
            /\ attempts' = Append(attempts, Attempt(0, 0, req'))
            /\ pc' = "ufv_project_id"
            /\ UNCHANGED out
    /\ UNCHANGED <<inputVars, toolVars, server_fields, now, sigint_at,
                   server_values, calls, faults,
                   project_id, fields, bulkCounters, exit_code>>

BulkOpen ==
    /\ pc = "bulk_update"
    /\ IF ~file.exists
       THEN /\ out' = Append(out, Printed("file_not_found", 0, NoExc))
            /\ exit_code' = 1
            /\ pc' = "exit"
       ELSE /\ pc' = "bulk_loop"
            /\ UNCHANGED <<out, exit_code>>
    /\ UNCHANGED <<inputVars, toolVars, server_fields, now, sigint_at,
                   server_values, calls, faults, req,
                   project_id, fields, bulkCounters, attempts>>

\* the exception main catches when a row's cell is None
AttributeError == Exc("AttributeError", NoStr, NoStr, "")

\* BulkRow without the test of dry_run
BulkRowDryRunUnchecked ==
    /\ pc = "bulk_loop"
    /\ NextLine(file.lines, line) # 0
    /\ LET n == NextLine(file.lines, line)
           r == ReadRow(file.header, file.lines[n])
       IN  /\ line' = n
           /\ row_num' = row_num + 1
           /\ IF r.raised
              THEN /\ out' = Append(out, Printed("error", 0, AttributeError))
                   /\ exit_code' = 1
                   /\ pc' = "exit"
                   /\ UNCHANGED <<updated, failed, req, attempts>>
              ELSE IF MissingRequired(r)
              THEN /\ out' = Append(out, Printed("row_missing", row_num', NoExc))
                   /\ failed' = failed + 1
                   /\ pc' = "bulk_loop"
                   /\ UNCHANGED <<updated, exit_code, req, attempts>>
              ELSE /\ out' = Append(out, Printed("row_start", row_num', NoExc))
                   /\ req' = Req(r.item_id, r.field_name, r.value)
                   /\ attempts' = Append(attempts, Attempt(row_num', n, req'))
                   /\ pc' = "ufv_project_id"
                   /\ UNCHANGED <<updated, failed, exit_code>>
    /\ UNCHANGED <<inputVars, toolVars, server_fields, now, sigint_at,
                   server_values, calls, faults, project_id, fields>>

\* a dry run that looks the row up in the project before it counts it
BulkRowDryRunValidates ==
    /\ pc = "bulk_loop"
    /\ NextLine(file.lines, line) # 0
    /\ LET n == NextLine(file.lines, line)
           r == ReadRow(file.header, file.lines[n])
       IN  /\ line' = n
           /\ row_num' = row_num + 1
           /\ IF r.raised
              THEN /\ out' = Append(out, Printed("error", 0, AttributeError))
                   /\ exit_code' = 1
                   /\ pc' = "exit"
                   /\ UNCHANGED <<updated, failed, req, attempts>>
              ELSE IF MissingRequired(r)
              THEN /\ out' = Append(out, Printed("row_missing", row_num', NoExc))
                   /\ failed' = failed + 1
                   /\ pc' = "bulk_loop"
                   /\ UNCHANGED <<updated, exit_code, req, attempts>>
              ELSE IF dry_run /\ ~BuildMutation(ProjectId,
                                     get_project_fields(FieldsPage(server_fields)),
                                     r.item_id, r.field_name, r.value).ok
              THEN /\ out' = out \o <<Printed("row_start", row_num', NoExc),
                                      Printed("row_failed", row_num', NoExc)>>
                   /\ failed' = failed + 1
                   /\ pc' = "bulk_loop"
                   /\ UNCHANGED <<updated, exit_code, req, attempts>>
              ELSE IF dry_run
              THEN /\ out' = out \o <<Printed("row_start", row_num', NoExc),
                                      Printed("row_dry_run", row_num', NoExc)>>
                   /\ updated' = updated + 1
                   /\ pc' = "bulk_loop"
                   /\ UNCHANGED <<failed, exit_code, req, attempts>>
              ELSE /\ out' = Append(out, Printed("row_start", row_num', NoExc))
                   /\ req' = Req(r.item_id, r.field_name, r.value)
                   /\ attempts' = Append(attempts, Attempt(row_num', n, req'))
                   /\ pc' = "ufv_project_id"
                   /\ UNCHANGED <<updated, failed, exit_code>>
    /\ UNCHANGED <<inputVars, toolVars, server_fields, now, sigint_at,
                   server_values, calls, faults,
                   project_id, fields>>

\* one pass of the for loop, up to the call of update_field_value
BulkRow ==
    /\ pc = "bulk_loop"
    /\ NextLine(file.lines, line) # 0
    /\ LET n == NextLine(file.lines, line)
           r == ReadRow(file.header, file.lines[n])
       IN  /\ line' = n
           /\ row_num' = row_num + 1
           /\ IF r.raised
              THEN /\ out' = Append(out, Printed("error", 0, AttributeError))
                   /\ exit_code' = 1
                   /\ pc' = "exit"
                   /\ UNCHANGED <<updated, failed, req, attempts>>
              ELSE IF MissingRequired(r)
              THEN /\ out' = Append(out, Printed("row_missing", row_num', NoExc))
                   /\ failed' = failed + 1
                   /\ pc' = "bulk_loop"
                   /\ UNCHANGED <<updated, exit_code, req, attempts>>
              ELSE IF dry_run
              THEN /\ out' = out \o <<Printed("row_start", row_num', NoExc),
                                      Printed("row_dry_run", row_num', NoExc)>>
                   /\ updated' = updated + 1
                   /\ pc' = "bulk_loop"
                   /\ UNCHANGED <<failed, exit_code, req, attempts>>
              ELSE /\ out' = Append(out, Printed("row_start", row_num', NoExc))
                   /\ req' = Req(r.item_id, r.field_name, r.value)
                   /\ attempts' = Append(attempts, Attempt(row_num', n, req'))
                   /\ pc' = "ufv_project_id"
                   /\ UNCHANGED <<updated, failed, exit_code>>
    /\ UNCHANGED <<inputVars, toolVars, server_fields, now, sigint_at,
                   server_values, calls, faults,
                   project_id, fields>>

\* time.sleep(0.5): one unit of `now`
SleepTime == 1

\* BulkSleep returning at once
BulkSleepSkipped ==
    /\ pc = "bulk_sleep"
    /\ pc' = "bulk_loop"
    /\ UNCHANGED <<inputVars, toolVars, server_fields, now, sigint_at, server_values,
                   calls, faults, req, project_id, fields, bulkCounters, out,
                   exit_code, attempts>>

\* time.sleep(0.5) after a row that was updated
BulkSleep ==
    /\ pc = "bulk_sleep"
    /\ now' = now + SleepTime
    /\ pc' = "bulk_loop"
    /\ UNCHANGED <<inputVars, toolVars, server_fields, sigint_at, server_values, calls,
                   faults, req,
                   project_id, fields, bulkCounters, out, exit_code, attempts>>

\* the reader is exhausted: the summary, and the return to main
BulkEnd ==
    /\ pc = "bulk_loop"
    /\ NextLine(file.lines, line) = 0
    /\ out' = out \o <<Summary(updated, failed)>>
                  \o (IF dry_run THEN <<Printed("dry_run_note", 0, NoExc)>>
                      ELSE <<>>)
    /\ pc' = "exit"
    /\ UNCHANGED <<inputVars, toolVars, server_fields, now, sigint_at,
                   server_values, calls, faults, req,
                   project_id, fields, bulkCounters, exit_code, attempts>>

(***************************************************************************)
(* update_field_value, one remote request at a time.                       *)
(***************************************************************************)
\* UfvGetProjectId asking again after a failure of the executor
UfvGetProjectIdRetry ==
    /\ pc = "ufv_project_id"
    /\ \E o \in ProjectIdOutcomes :
        /\ calls' = Append(calls, Call("get_project_id", o, "", <<>>))
        /\ IF o = "ok"
           THEN /\ project_id' = ProjectId
                /\ pc' = "gpf_project_id"
                /\ UNCHANGED <<faults, updated, failed, out, exit_code, attempts>>
           ELSE /\ faults' = faults + 1
                /\ UNCHANGED <<pc, project_id, updated, failed, out, exit_code,
                               attempts>>
    /\ UNCHANGED <<inputVars, toolVars, server_fields, now, sigint_at,
                   server_values, req, fields, line, row_num>>

\* project_id = self.get_project_id(project_num, owner)
UfvGetProjectId ==
    /\ pc = "ufv_project_id"
    /\ \E o \in ProjectIdOutcomes :
        /\ calls' = Append(calls, Call("get_project_id", o, "", <<>>))
        /\ IF o = "ok"
           THEN /\ project_id' = ProjectId
                /\ pc' = "gpf_project_id"
                /\ UNCHANGED <<faults, updated, failed, out, exit_code, attempts>>
           ELSE /\ faults' = faults + 1
                /\ Raise(OutcomeExc(o))
                /\ UNCHANGED project_id
    /\ UNCHANGED <<inputVars, toolVars, server_fields, now, sigint_at,
                   server_values, req, fields, line,
                   row_num>>

\* get_project_fields: its own get_project_id
GpfGetProjectId ==
    /\ pc = "gpf_project_id"
    /\ \E o \in ProjectIdOutcomes :
        /\ calls' = Append(calls, Call("get_project_id", o, "", <<>>))
        /\ IF o = "ok"
           THEN /\ pc' = "gpf_fields"
                /\ UNCHANGED <<faults, updated, failed, out, exit_code, attempts>>
           ELSE /\ faults' = faults + 1
                /\ Raise(OutcomeExc(o))
    /\ UNCHANGED <<inputVars, toolVars, server_fields, now, sigint_at,
                   server_values, req, project_id,
                   fields, line, row_num>>

\* GpfFields keeping the list it fetched for an earlier row
GpfFieldsCached ==
    /\ pc = "gpf_fields"
    /\ IF fields # <<>>
       THEN /\ attempts' = [attempts EXCEPT ![Len(attempts)] =
                                [@ EXCEPT !.fetched = TRUE, !.fields = fields]]
            /\ pc' = "ufv_build"
            /\ UNCHANGED <<calls, fields, faults, updated, failed, out,
                           exit_code>>
       ELSE \E o \in FieldsOutcomes :
            /\ calls' = Append(calls, Call("get_project_fields", o, "",
                                           ("projectId" :> ProjectId)))
            /\ IF o = "ok"
               THEN /\ fields' = get_project_fields(FieldsPage(server_fields))
                    /\ attempts' = [attempts EXCEPT ![Len(attempts)] =
                                        [@ EXCEPT !.fetched = TRUE,
                                                  !.fields = fields']]
                    /\ pc' = "ufv_build"
                    /\ UNCHANGED <<faults, updated, failed, out, exit_code>>
               ELSE /\ faults' = faults + 1
                    /\ Raise(OutcomeExc(o))
                    /\ UNCHANGED fields
    /\ UNCHANGED <<inputVars, toolVars, server_fields, now, sigint_at,
                   server_values, req, project_id, line, row_num>>

\* get_project_fields: the fields query and the ProjectField list
GpfFields ==
    /\ pc = "gpf_fields"
    /\ \E o \in FieldsOutcomes :
        /\ calls' = Append(calls, Call("get_project_fields", o, "",
                                       ("projectId" :> ProjectId)))
        /\ IF o = "ok"
           THEN /\ fields' = get_project_fields(FieldsPage(server_fields))
                /\ attempts' = [attempts EXCEPT ![Len(attempts)] =
                                    [@ EXCEPT !.fetched = TRUE, !.fields = fields']]
                /\ pc' = "ufv_build"
                /\ UNCHANGED <<faults, updated, failed, out, exit_code>>
           ELSE /\ faults' = faults + 1
                /\ Raise(OutcomeExc(o))
                /\ UNCHANGED fields
    /\ UNCHANGED <<inputVars, toolVars, server_fields, now, sigint_at,
                   server_values, req, project_id,
                   line, row_num>>

\* UfvMutate sending the value as text before it looks at the field
UfvMutateSendFirst ==
    /\ pc = "ufv_build"
    /\ LET m == BuildMutation(project_id, fields, req.item_id, req.field_name,
                              req.value)
           s == IF m.ok THEN m
                ELSE TextBranch(BaseVars(project_id, req.item_id, ""), req.value)
       IN  \E o \in MutationOutcomes :
            /\ calls' = Append(calls, Call("updateProjectV2ItemFieldValue",
                                           o, s.doc, s.vars))
            /\ faults' = IF o = "ok" THEN faults ELSE faults + 1
            /\ server_values' = IF o \in {"ok", "reply_lost"}
                                THEN Applied(server_values, s)
                                ELSE server_values
            /\ LET exc == IF ~m.ok THEN m.exc
                          ELSE IF o = "ok" THEN NoExc ELSE OutcomeExc(o)
               IN  Finish(exc = NoExc, exc,
                          [Cur EXCEPT !.state = IF exc = NoExc THEN "returned"
                                                ELSE "raised",
                                      !.exc = exc, !.sent = TRUE,
                                      !.doc = s.doc, !.vars = s.vars])
    /\ UNCHANGED <<inputVars, toolVars, server_fields, now, sigint_at,
                   req, project_id, fields, line,
                   row_num>>

\* UfvMutate with mutation_vars a dict that outlives the call: the
\* entries of the call before are still in it
UfvMutateSharedVars ==
    /\ pc = "ufv_build"
    /\ LET b == BuildMutation(project_id, fields, req.item_id, req.field_name,
                              req.value)
           left == IF Len(attempts) > 1 THEN attempts[Len(attempts) - 1].vars
                   ELSE <<>>
           m == IF b.ok THEN [b EXCEPT !.vars = b.vars @@ left] ELSE b
       IN  IF ~m.ok
           THEN /\ Raise(m.exc)
                /\ UNCHANGED <<calls, faults, server_values>>
           ELSE \E o \in MutationOutcomes :
                /\ calls' = Append(calls, Call("updateProjectV2ItemFieldValue",
                                               o, m.doc, m.vars))
                /\ faults' = IF o = "ok" THEN faults ELSE faults + 1
                /\ server_values' = IF o \in {"ok", "reply_lost"}
                                    THEN Applied(server_values, m)
                                    ELSE server_values
                /\ Finish(o = "ok", IF o = "ok" THEN NoExc ELSE OutcomeExc(o),
                          [Cur EXCEPT !.state = IF o = "ok" THEN "returned"
                                                ELSE "raised",
                                      !.exc = IF o = "ok" THEN NoExc
                                              ELSE OutcomeExc(o),
                                      !.sent = TRUE, !.doc = m.doc,
                                      !.vars = m.vars])
    /\ UNCHANGED <<inputVars, toolVars, server_fields, now, sigint_at, req, project_id,
                   fields, line, row_num>>

\* the lookup, the branch on the type, and the mutation request
UfvMutate ==
    /\ pc = "ufv_build"
    /\ LET m == BuildMutation(project_id, fields, req.item_id, req.field_name,
                              req.value)
       IN  IF ~m.ok
           THEN /\ Raise(m.exc)
                /\ UNCHANGED <<calls, faults, server_values>>
           ELSE \E o \in MutationOutcomes :
                /\ calls' = Append(calls, Call("updateProjectV2ItemFieldValue",
                                               o, m.doc, m.vars))
                /\ faults' = IF o = "ok" THEN faults ELSE faults + 1
                /\ server_values' = IF o \in {"ok", "reply_lost"}
                                    THEN Applied(server_values, m)
                                    ELSE server_values
                /\ Finish(o = "ok", IF o = "ok" THEN NoExc ELSE OutcomeExc(o),
                          [Cur EXCEPT !.state = IF o = "ok" THEN "returned"
                                                ELSE "raised",
                                      !.exc = IF o = "ok" THEN NoExc
                                              ELSE OutcomeExc(o),
                                      !.sent = TRUE, !.doc = m.doc,
                                      !.vars = m.vars])
    /\ UNCHANGED <<inputVars, toolVars, server_fields, now, sigint_at,
                   req, project_id, fields, line,
                   row_num>>

(***************************************************************************)
(* The invocations the model runs.                                         *)
(***************************************************************************)
\* all sequences over S of length at most n
RECURSIVE SeqsUpTo(_, _)
SeqsUpTo(S, n) ==
    IF n = 0 THEN {<<>>}
    ELSE LET shorter == SeqsUpTo(S, n - 1)
         IN  shorter \cup {Append(s, x) : s \in shorter, x \in S}

StdHeader == <<"item_id", "field_name", "value">>
\* another column order, with a column the code does not read
MixedHeader == <<"value", "note", "item_id", "field_name">>
\* no value column
NoValueHeader == <<"item_id", "field_name">>
Headers == {StdHeader, MixedHeader, NoValueHeader}

\* the lines of a file: a good row, a row with an empty value, a row with
\* fewer cells than the header, a row with padded cells and a cell too
\* many, a row with a value no number, a line with no cell, a row in the
\* order of MixedHeader, a row whose field name is blanks
RowPool ==
    { <<sIT1, sStatus, sDone>>,
      <<sIT2, sPriority, sEmpty>>,
      <<sIT1, sStatus>>,
      <<sIT1Padded, sNotesPadded, sHiPadded, sX>>,
      <<sIT1, sPoints, sAbc>>,
      <<>>,
      <<sHi, sX, sIT2, sNotes>>,
      <<sIT1, sBlank, sX>> }

Files == {CsvFile(h, ls) : h \in Headers, ls \in SeqsUpTo(RowPool, MaxRows)}

\* args.args of set-field: item_id, field_name, value (or too few of them)
SetFieldArgs ==
    { <<sIT1, sStatus, sDone>>, <<sIT1, sNotes, sEmpty>>,
      <<sIT1, sSprint, sS1>>, <<sIT1, sPoints, sPi>>, <<sIT1, sPoints, sAbc>>,
      <<sIT1, sDue, sDateFeb30>>, <<sIT1, sDue, sDateUS>>,
      <<sIT1, sTitle, sX>>, <<sIT1, sGhost, sX>>, <<sIT1, sStatus, sDoing>>,
      <<sIT1, sNotes, sHiPadded>>,
      <<sIT1, sStatus>> }

Init ==
    /\ InitRun
    /\ ToolsIdle
    /\ faults = 0
    /\ server_fields = MainCatalog
    /\ gh_auth \in BOOLEAN
    /\ dry_run \in BOOLEAN
    /\ \/ cmd = "set-field" /\ argv \in SetFieldArgs /\ file = NoFile
       \/ cmd = "bulk-update" /\ argv = <<sCsvPath>> /\ file \in Files \cup {NoFile}
       \/ cmd = "bulk-update" /\ argv = <<>> /\ file = NoFile

Next ==
    \/ Main
    \/ SetField
    \/ BulkOpen
    \/ BulkRow
    \/ BulkSleep
    \/ BulkEnd
    \/ UfvGetProjectId
    \/ GpfGetProjectId
    \/ GpfFields
    \/ UfvMutate

Spec == Init /\ [][Next]_vars

(***************************************************************************)
(* SIGINT: KeyboardInterrupt is no Exception, so the except clauses of      *)
(* set_field and bulk_update let it pass and main's handler ends the        *)
(* process with status 130.                                                 *)
(***************************************************************************)
\* what a mutation in flight has done when the signal ends the wait for its
\* reply: it was not sent, or the server applied it
InFlight ==
    IF pc = "ufv_build"
    THEN LET m == BuildMutation(project_id, fields, req.item_id,
                                req.field_name, req.value)
         IN  IF m.ok THEN {Raised(NoExc), m} ELSE {Raised(NoExc)}
    ELSE {Raised(NoExc)}

\* the call of update_field_value the signal ends, if one is running
Interrupted(as, m) ==
    IF as # <<>> /\ as[Len(as)].state = "running"
    THEN [as EXCEPT ![Len(as)] =
             IF m.ok THEN [@ EXCEPT !.state = "interrupted", !.sent = TRUE,
                                    !.doc = m.doc, !.vars = m.vars]
             ELSE [@ EXCEPT !.state = "interrupted"]]
    ELSE as

\* Interrupt with the signal caught by the except clause of the row
InterruptSwallowed ==
    /\ pc # "exit"
    /\ sigint_at = NoSignal
    /\ \E m \in InFlight :
        /\ calls' = IF m.ok
                    THEN Append(calls, Call("updateProjectV2ItemFieldValue",
                                            "reply_lost", m.doc, m.vars))
                    ELSE calls
        /\ server_values' = IF m.ok THEN Applied(server_values, m)
                            ELSE server_values
        /\ attempts' = Interrupted(attempts, m)
        /\ sigint_at' = Len(calls')
    /\ IF cmd = "bulk-update" /\ pc \in {"ufv_project_id", "gpf_project_id",
                                         "gpf_fields", "ufv_build", "bulk_sleep"}
       THEN /\ failed' = failed + 1
            /\ out' = Append(out, Printed("row_failed", row_num, NoExc))
            /\ pc' = "bulk_loop"
            /\ UNCHANGED exit_code
       ELSE /\ out' = Append(out, Printed("interrupted", 0, NoExc))
            /\ exit_code' = 130
            /\ pc' = "exit"
            /\ UNCHANGED failed
    /\ UNCHANGED <<inputVars, toolVars, server_fields, now, faults, req, project_id,
                   fields, line, row_num, updated>>

\* KeyboardInterrupt at any point of the run
Interrupt ==
    /\ pc # "exit"
    /\ sigint_at = NoSignal
    /\ \E m \in InFlight :
        /\ calls' = IF m.ok
                    THEN Append(calls, Call("updateProjectV2ItemFieldValue",
                                            "reply_lost", m.doc, m.vars))
                    ELSE calls
        /\ server_values' = IF m.ok THEN Applied(server_values, m)
                            ELSE server_values
        /\ attempts' = Interrupted(attempts, m)
        /\ sigint_at' = Len(calls')
    \* before main's try (gh auth status) nothing catches it: no line printed
    /\ out' \in {Append(out, Printed("interrupted", 0, NoExc))}
                 \cup (IF pc = "main" THEN {out} ELSE {})
    /\ exit_code' = 130
    /\ pc' = "exit"
    /\ UNCHANGED <<inputVars, toolVars, server_fields, now, faults, req, project_id,
                   fields, bulkCounters>>

NextInterrupt == Next \/ Interrupt

SpecInterrupt == Init /\ [][NextInterrupt]_vars

(***************************************************************************)
(* A bulk run while the project changes on the server: its owner deletes   *)
(* and recreates an option, then renames it, and another invocation of the *)
(* program updates the same field of the same item.                        *)
(***************************************************************************)
\* MainCatalog after the options named Done were deleted and one was created
RecreatedCatalog ==
    [MainCatalog EXCEPT ![1] = SelectNode("PVTSSF_1", sStatus,
                                          <<Opt("o1", sTodo), Opt("o7", sDone)>>)]

\* RecreatedCatalog after that option was renamed
RenamedCatalog ==
    [MainCatalog EXCEPT ![1] = SelectNode("PVTSSF_1", sStatus,
                                          <<Opt("o1", sTodo),
                                            Opt("o7", sDoneUpper)>>)]

ServerChain == <<MainCatalog, RecreatedCatalog, RenamedCatalog>>

\* the owner's next change of the Status options
ServerChange ==
    /\ pc \notin {"main", "exit"}
    /\ \E i \in 1..(Len(ServerChain) - 1) :
        /\ server_fields = ServerChain[i]
        /\ server_fields' = ServerChain[i + 1]
    /\ UNCHANGED <<inputVars, toolVars, now, sigint_at, server_values, calls, faults, pc,
                   req, project_id, fields, bulkCounters, out, exit_code,
                   attempts>>

\* the mutation of another invocation, set-field IT1 Status Todo, built from
\* the fields the server holds now, reaches the server
OtherInvocation ==
    /\ pc \notin {"main", "exit"}
    /\ LET m == BuildMutation(ProjectId,
                              get_project_fields(FieldsPage(server_fields)),
                              sIT1, sStatus, sTodo)
       IN  /\ m.ok
           /\ server_values' = Applied(server_values, m)
           /\ server_values' # server_values
    /\ UNCHANGED <<inputVars, toolVars, server_fields, now, sigint_at, calls, faults, pc,
                   req, project_id, fields, bulkCounters, out, exit_code,
                   attempts>>

\* rows on the same field with the same value for two items, and a row on a
\* text field
ServerRowPool ==
    { <<sIT1, sStatus, sDone>>, <<sIT2, sStatus, sDone>>, <<sIT2, sNotes, sHi>> }

ServerFiles ==
    {CsvFile(StdHeader, ls) : ls \in SeqsUpTo(ServerRowPool, MaxRows + 1)}

\* the executor does not fail in these runs
InitServer ==
    /\ InitRun
    /\ ToolsIdle
    /\ faults = MaxFaults
    /\ cmd = "bulk-update"
    /\ gh_auth = TRUE
    /\ dry_run = FALSE
    /\ argv = <<sCsvPath>>
    /\ file \in ServerFiles
    /\ server_fields \in {ServerChain[i] : i \in 1..Len(ServerChain)}

NextServer ==
    \/ Main
    \/ BulkOpen
    \/ BulkRow
    \/ BulkSleep
    \/ BulkEnd
    \/ UfvGetProjectId
    \/ GpfGetProjectId
    \/ GpfFields
    \/ UfvMutate
    \/ ServerChange
    \/ OtherInvocation

SpecServer == InitServer /\ [][NextServer]_vars

(***************************************************************************)
(* update_field_value over many field names and values: the set-field      *)
(* command, without dry run.                                               *)
(***************************************************************************)
FieldNames ==
    {sStatus, sStatusLower, sStatusUpper, sStat, sTatu, sStatusX,
     sStatusPadded, sSprint, sNotes, sPoints, sDue, sTitle, sPriority, sEmpty}

\* option names and iteration titles, their variants in case, their parts
CommonValues ==
    {sTodo, sDone, sDoneLower, sDoneUpper, sDo, sDoing, sDonePadded, sS1, sS0,
     sS1Lower, sS, sS2, sEmpty, sHiPadded, sNewline, sPi, sAbc, sDate}

NumChars == {"1", ".", "-", "e", "_", " ", "x"}
NumberValues ==
    StringsUpTo(NumChars, MaxNumLen) \cup
    {sPi, sAbc, sInf, sNan, sInfinity, sInfinityNeg, sNanUpper, sHuge, sTiny,
     sExp, sGrouped, sZeroNeg, sArabicThree, sDate}

BaseDates == {sDate, sDateMonth13, sDateFeb30, sDateUS}
DateChars == {"1", "-", "x", " ", "\n"}
PadChars == {"1", " ", "\n"}

\* one character of a base date replaced or removed
DateEdits ==
    UNION {{[b EXCEPT ![i] = c] : i \in 1..Len(b), c \in DateChars}
           \cup {SubSeq(b, 1, i - 1) \o SubSeq(b, i + 1, Len(b)) : i \in 1..Len(b)}
           : b \in BaseDates}

\* a base date with at most MaxPad characters before it and after it
DatePads(n) ==
    {pre \o b \o post : pre \in StringsUpTo(PadChars, n),
                        post \in StringsUpTo(PadChars, n), b \in BaseDates}

DateValues == DateEdits \cup DatePads(MaxPad) \cup {sDateArabic, sEmpty, sAbc}

SetFieldInputs ==
    (Catalogs \X FieldNames \X CommonValues)
    \cup ({MainCatalog} \X {sPoints} \X NumberValues)
    \cup ({MainCatalog} \X {sDue} \X DateValues)
    \cup ({MainCatalog} \X {sNotes, sTitle} \X (NumberValues \cup DateValues))
    \cup ({LargeCatalog}
              \X {FillerName(1), FillerName(FieldsFirst), sPriority, sGhost}
              \X {sHi, sEmpty})

InitSetField ==
    /\ InitRun
    /\ ToolsIdle
    /\ faults = 0
    /\ cmd = "set-field"
    /\ gh_auth = TRUE
    /\ dry_run = FALSE
    /\ file = NoFile
    /\ \E i \in SetFieldInputs :
        /\ server_fields = i[1]
        /\ argv = <<sIT1, i[2], i[3]>>

NextSetField ==
    \/ Main
    \/ SetField
    \/ UfvGetProjectId
    \/ GpfGetProjectId
    \/ GpfFields
    \/ UfvMutate

SpecSetField == InitSetField /\ [][NextSetField]_vars

(***************************************************************************)
(* Properties of update_field_value, stated on its calls (attempts).       *)
(***************************************************************************)
\* the call got its catalog and went through the lookup and the branch
Dispatched(a) == a.fetched /\ a.state # "running"

\* the places of the catalog whose name is the requested one, exactly
NameMatches(a) ==
    {i \in 1..Len(a.fields) : a.fields[i].name = a.req.field_name}

FirstOf(S) == CHOOSE i \in S : \A j \in S : i <= j

\* the field the request is about
Matched(a) == a.fields[FirstOf(NameMatches(a))]

OfType(a, data_type) ==
    Dispatched(a) /\ NameMatches(a) # {} /\ Matched(a).data_type = data_type

\* the mutation requests issued for attempt k
MutationsOf(k) ==
    {c \in 1..Len(calls) : calls[c].attempt = k
                           /\ calls[c].op = "updateProjectV2ItemFieldValue"}

\* C1: when no field of the fetched catalog has exactly the requested name,
\* the call fails with the field-not-found error citing the name and sends
\* no mutation; a name that differs in case only, or is a part of the
\* requested one, or of which the requested one is a part, is no match.
C1_FieldNotFound ==
    \A k \in 1..Len(attempts) :
        LET a == attempts[k]
        IN  (Dispatched(a) /\ NameMatches(a) = {}) =>
                /\ a.state = "raised"
                /\ a.exc = FieldNotFound(a.req.field_name)
                /\ ~a.sent
                /\ MutationsOf(k) = {}

\* a request for "Status" on a catalog that holds "status" and "Stat" only
C1_Witness ==
    \E k \in 1..Len(attempts) :
        LET a == attempts[k]
        IN  /\ Dispatched(a) /\ NameMatches(a) = {}
            /\ a.req.field_name = sStatus
            /\ \E i \in 1..Len(a.fields) : a.fields[i].name = sStatusLower
            /\ \E i \in 1..Len(a.fields) : a.fields[i].name = sStat
            /\ a.exc.kind = "FieldNotFound"

\* C2: on a SINGLE_SELECT field the mutation is sent iff the value is
\* exactly the name of an option; it then carries the id of the first
\* option, in list order, of that name; otherwise the call fails with an
\* error citing the value and the field name.
C2_SingleSelect ==
    \A k \in 1..Len(attempts) :
        LET a == attempts[k]
            hits == {j \in 1..Len(Matched(a).options) :
                        Matched(a).options[j].name = a.req.value}
        IN  OfType(a, "SINGLE_SELECT") =>
                /\ a.sent <=> hits # {}
                /\ a.sent =>
                    /\ a.doc = "singleSelectOptionId"
                    /\ a.vars["optionId"] = Matched(a).options[FirstOf(hits)].id
                    /\ a.state = "returned" <=>
                           \E c \in MutationsOf(k) : calls[c].outcome = "ok"
                /\ ~a.sent =>
                    /\ a.state = "raised"
                    /\ a.exc = OptionNotFound(a.req.value, a.req.field_name)

\* "Done" is asked of a field with two options of that name: the first's id
C2_Witness ==
    \E k \in 1..Len(attempts) :
        LET a == attempts[k]
        IN  /\ OfType(a, "SINGLE_SELECT")
            /\ Cardinality({j \in 1..Len(Matched(a).options) :
                               Matched(a).options[j].name = a.req.value}) = 2
            /\ a.state = "returned"
            /\ a.vars["optionId"] = "o2"

\* the node of the server the field at place i of a fetched catalog is from
NodeOf(a) == server_fields[FirstOf(NameMatches(a))]

\* C3: on an ITERATION field the fetched iterations are the server's active
\* iterations followed by its completed ones; the mutation is sent iff the
\* value is exactly the title of one of them and carries the id of the
\* first of that title; otherwise the call fails with an error.
C3_Iteration ==
    \A k \in 1..Len(attempts) :
        LET a == attempts[k]
            its == NodeOf(a).iterations \o NodeOf(a).completedIterations
            hits == {j \in 1..Len(its) : its[j].title = a.req.value}
        IN  OfType(a, "ITERATION") =>
                /\ Matched(a).iterations = its
                /\ a.sent <=> hits # {}
                /\ a.sent =>
                    /\ a.doc = "iterationId"
                    /\ a.vars["iterationId"] = its[FirstOf(hits)].id
                /\ ~a.sent =>
                    /\ a.state = "raised"
                    /\ a.exc = IterationNotFound(a.req.value, a.req.field_name)

\* a title held by an active and by a completed iteration: the active one
C3_Witness ==
    \E k \in 1..Len(attempts) :
        LET a == attempts[k]
        IN  /\ OfType(a, "ITERATION")
            /\ \E j \in 1..Len(NodeOf(a).iterations) :
                   NodeOf(a).iterations[j].title = a.req.value
            /\ \E j \in 1..Len(NodeOf(a).completedIterations) :
                   NodeOf(a).completedIterations[j].title = a.req.value
            /\ a.sent
            /\ a.vars["iterationId"] = "i1"

\* four digits, a hyphen, two digits, a hyphen, two digits, and no more
IsoShape(v) ==
    /\ Len(v) = 10
    /\ \A i \in 1..10 : IF i \in {5, 8} THEN v[i] = "-" ELSE v[i] \in UnicodeDigits

\* C4: on a DATE field the mutation is sent iff the value is four digits, a
\* hyphen, two digits, a hyphen and two digits with nothing before or after
\* (whatever the month and the day), and it then carries the value
\* unchanged.
C4_DateExact ==
    \A k \in 1..Len(attempts) :
        LET a == attempts[k]
        IN  OfType(a, "DATE") =>
                /\ a.sent <=> IsoShape(a.req.value)
                /\ a.sent => a.doc = "date" /\ a.vars["value"] = PyStr(a.req.value)
                /\ ~a.sent => a.state = "raised" /\ a.exc = InvalidDate(a.req.value)

\* what the code does on a DATE field: it also takes a value of that shape
\* followed by one newline, and sends it with the newline
DateAsCoded ==
    \A k \in 1..Len(attempts) :
        LET a == attempts[k]
            v == a.req.value
        IN  OfType(a, "DATE") =>
                /\ a.sent <=> \/ IsoShape(v)
                              \/ /\ Len(v) = 11 /\ v[11] = "\n"
                                 /\ IsoShape(SubSeq(v, 1, 10))
                /\ a.sent => a.doc = "date" /\ a.vars["value"] = PyStr(v)
                /\ ~a.sent => a.state = "raised" /\ a.exc = InvalidDate(v)

(***************************************************************************)
(* A floating-point literal, as a grammar: blanks, a sign, then inf,       *)
(* infinity or nan in any case, or digits with an optional point and an    *)
(* optional exponent; single underscores may sit between digits.           *)
(***************************************************************************)
LiteralDigits == UnicodeDigits

IsDigitGroup(g) ==
    /\ g # <<>>
    /\ g[1] \in LiteralDigits
    /\ g[Len(g)] \in LiteralDigits
    /\ \A i \in 1..Len(g) : g[i] \in LiteralDigits \cup {"_"}
    /\ \A i \in 1..(Len(g) - 1) : ~(g[i] = "_" /\ g[i + 1] = "_")

IsMantissa(m) ==
    \/ IsDigitGroup(m)
    \/ \E d \in 1..Len(m) :
        LET int == SubSeq(m, 1, d - 1)
            frac == SubSeq(m, d + 1, Len(m))
        IN  /\ m[d] = "."
            /\ int = <<>> \/ IsDigitGroup(int)
            /\ frac = <<>> \/ IsDigitGroup(frac)
            /\ int # <<>> \/ frac # <<>>

IsExponent(x) ==
    /\ Len(x) >= 2
    /\ x[1] \in {"e", "E"}
    /\ IF x[2] \in {"+", "-"} THEN IsDigitGroup(SubSeq(x, 3, Len(x)))
       ELSE IsDigitGroup(SubSeq(x, 2, Len(x)))

IsUnsignedLiteral(b) ==
    \/ Lower(b) \in {sInf, sInfinity, sNan}
    \/ \E k \in 1..Len(b) :
        /\ IsMantissa(SubSeq(b, 1, k))
        /\ k = Len(b) \/ IsExponent(SubSeq(b, k + 1, Len(b)))

IsFloatLiteral(s) ==
    \E i \in 1..Len(s) : \E j \in i..Len(s) :
        /\ \A k \in 1..(i - 1) : s[k] \in Whitespace
        /\ \A k \in (j + 1)..Len(s) : s[k] \in Whitespace
        /\ LET core == SubSeq(s, i, j)
           IN  IF core[1] \in {"+", "-"} THEN IsUnsignedLiteral(Tail(core))
               ELSE IsUnsignedLiteral(core)

\* C5: on a NUMBER field the mutation is sent iff the value is a
\* floating-point literal; it then carries the float the value parses to;
\* otherwise the call fails with an error citing the raw string.
C5_Number ==
    \A k \in 1..Len(attempts) :
        LET a == attempts[k]
        IN  OfType(a, "NUMBER") =>
                /\ a.sent <=> IsFloatLiteral(a.req.value)
                /\ a.sent =>
                    /\ a.doc = "number"
                    /\ a.vars["value"] = PyFloat(float(a.req.value).val)
                /\ ~a.sent =>
                    /\ a.state = "raised"
                    /\ a.exc = InvalidNumber(a.req.value)

\* "3.14" is sent as the float 314 * 10^-2
C5_Witness ==
    \E k \in 1..Len(attempts) :
        LET a == attempts[k]
        IN  /\ OfType(a, "NUMBER")
            /\ a.req.value = sPi
            /\ a.state = "returned"
            /\ a.vars["value"] =
                   PyFloat([kind |-> "finite", neg |-> FALSE, m |-> 314, e |-> -2])

\* C6: on a TEXT field every value, the empty string too, passes: the
\* mutation is sent and carries the value as the caller gave it.
C6_Text ==
    \A k \in 1..Len(attempts) :
        LET a == attempts[k]
        IN  OfType(a, "TEXT") =>
                /\ a.sent
                /\ a.doc = "text"
                /\ a.vars["value"] = PyStr(a.req.value)
                /\ cmd = "set-field" => a.req.value = argv[3]
                /\ a.exc.kind \in {"", "ExecutorError", "UpdateFailed"}

\* the empty string and a string with blanks around it are sent as they are
C6_Witness ==
    \E k \in 1..Len(attempts) :
        LET a == attempts[k]
        IN  /\ OfType(a, "TEXT")
            /\ a.req.value \in {sEmpty, sHiPadded}
            /\ a.state = "returned"
            /\ a.vars["value"] = PyStr(a.req.value)

HandledTypes == {"TEXT", "NUMBER", "DATE", "SINGLE_SELECT", "ITERATION"}

\* C7: when the matched field's type is none of the five handled ones the
\* call fails with the unsupported-type error, whatever the value, and the
\* error does not depend on the value.
C7_Unsupported ==
    \A k \in 1..Len(attempts) :
        LET a == attempts[k]
        IN  (Dispatched(a) /\ NameMatches(a) # {}
             /\ Matched(a).data_type \notin HandledTypes) =>
                /\ a.state = "raised"
                /\ a.exc = UnsupportedFieldType(Matched(a).data_type)
                /\ ~a.sent
                /\ MutationsOf(k) = {}

\* a TITLE field is asked to take a well-formed date
C7_Witness ==
    \E k \in 1..Len(attempts) :
        LET a == attempts[k]
        IN  /\ Dispatched(a) /\ NameMatches(a) # {}
            /\ Matched(a).data_type = "TITLE"
            /\ a.req.value = sDate
            /\ a.exc.kind = "UnsupportedFieldType"

(***************************************************************************)
(* Properties of the commands.                                             *)
(***************************************************************************)
\* the errors of the lookup, of the type support and of the value checks
DispatchErrors ==
    {"FieldNotFound", "UnsupportedFieldType", "InvalidNumber", "InvalidDate",
     "OptionNotFound", "IterationNotFound"}

\* the values the server holds after the first n requests, those of attempt
\* k left out
RECURSIVE ValuesWithout(_, _)
ValuesWithout(k, n) ==
    IF n = 0 THEN NoValues
    ELSE IF /\ calls[n].op = "updateProjectV2ItemFieldValue"
            /\ calls[n].outcome \in {"ok", "reply_lost"}
            /\ calls[n].attempt # k
         THEN Applied(ValuesWithout(k, n - 1), calls[n])
         ELSE ValuesWithout(k, n - 1)

\* C8: a call that failed with a lookup, type-support or value error has
\* sent no mutation, and the values on the server are what the requests of
\* the other calls made them.
C8_FailureSendsNothing ==
    \A k \in 1..Len(attempts) :
        LET a == attempts[k]
        IN  (a.state = "raised" /\ a.exc.kind \in DispatchErrors) =>
                /\ ~a.sent
                /\ MutationsOf(k) = {}
                /\ server_values = ValuesWithout(k, Len(calls))

\* a row is updated on the server, then a later row fails its value check
C8_Witness ==
    \E k \in 2..Len(attempts) :
        /\ attempts[k].state = "raised"
        /\ attempts[k].exc.kind = "InvalidNumber"
        /\ attempts[1].state = "returned"
        /\ server_values # NoValues

\* the lines of the file that hold a row
DataLines == {i \in 1..Len(file.lines) : file.lines[i] # <<>>}

\* the row number bulk_update gives the row of line i
RowNumOf(i) == 1 + Cardinality({j \in DataLines : j <= i})

RowReported(i) ==
    \E o \in 1..Len(out) :
        /\ out[o].kind \in {"row_missing", "row_failed", "row_updated",
                            "row_dry_run"}
        /\ out[o].row = RowNumOf(i)

RowDispatched(i) == \E k \in 1..Len(attempts) : attempts[k].line = i

SummaryPrinted == \E o \in 1..Len(out) : out[o].kind = "summary"

BulkRan == cmd = "bulk-update" /\ gh_auth /\ Len(argv) >= 1 /\ file.exists

\* C9: when a bulk run has ended, every row of the file was dispatched or
\* reported, in file order, whatever failed on the rows before it, and the
\* summary was printed after the last of them.
C9_EveryRowProcessed ==
    (BulkRan /\ pc = "exit") =>
        /\ \A i \in DataLines : RowDispatched(i) \/ RowReported(i)
        /\ \A j, k \in 1..Len(attempts) :
               j < k => attempts[j].line < attempts[k].line
        /\ SummaryPrinted
        /\ \A o \in 1..Len(out) :
               out[o].kind = "summary" =>
                   \A q \in (o + 1)..Len(out) : out[q].kind = "dry_run_note"

\* the place of a column in the header, 0 when the header has no such column
ColumnOf(key) ==
    IF \E p \in 1..Len(file.header) : file.header[p] = key
    THEN CHOOSE p \in 1..Len(file.header) : file.header[p] = key
    ELSE 0

\* the row of line i lacks the value of column key: no such column, no such
\* cell in the row, or an empty cell
Lacks(i, key) ==
    \/ ColumnOf(key) = 0
    \/ ColumnOf(key) > Len(file.lines[i])
    \/ file.lines[i][ColumnOf(key)] = sEmpty

Incomplete(i) ==
    Lacks(i, "item_id") \/ Lacks(i, "field_name") \/ Lacks(i, "value")

\* C10: every row read so far that lacks item_id, field_name or value was
\* reported as missing required fields and counted as failed, no request
\* was issued for it, and the batch went on: a run that ended printed its
\* summary.
C10_IncompleteRowSkipped ==
    BulkRan =>
        /\ \A i \in DataLines :
               (i <= line /\ Incomplete(i)) =>
                   /\ \E o \in 1..Len(out) :
                          out[o].kind = "row_missing" /\ out[o].row = RowNumOf(i)
                   /\ ~RowDispatched(i)
        /\ failed >= Cardinality({i \in DataLines : i <= line /\ Incomplete(i)})
        /\ (pc = "exit" /\ \E i \in DataLines : Incomplete(i)) => SummaryPrinted

\* the server confirmed the mutation of call k: the response held the item
Confirmed(k) == \E c \in MutationsOf(k) : calls[c].outcome = "ok"

\* the rows whose pass through the loop has ended
RowsDone ==
    {i \in DataLines :
        \/ i < line
        \/ i = line /\ (pc \in {"bulk_loop", "bulk_sleep"} \/ SummaryPrinted)}

\* C11: in a bulk run without dry run, updated is the number of rows whose
\* mutation the server confirmed, failed the number of rows skipped as
\* incomplete or whose update raised, and their sum the number of rows
\* processed so far; once the run has reached its summary the sum is the
\* number of data rows and the summary reports the two counts.
C11_Counts ==
    (BulkRan /\ ~dry_run) =>
        /\ updated = Cardinality({k \in 1..Len(attempts) : Confirmed(k)})
        /\ failed = Cardinality({o \in 1..Len(out) : out[o].kind = "row_missing"})
                    + Cardinality({k \in 1..Len(attempts) :
                                       attempts[k].state = "raised"})
        /\ updated + failed = Cardinality(RowsDone)
        /\ SummaryPrinted =>
               /\ pc = "exit"
               /\ updated + failed = Cardinality(DataLines)
               /\ out[Len(out)] = Summary(updated, failed)

\* rows (IT1, Status, Done), (IT2, Priority, ""): 1 updated, 1 failed
C11_Witness ==
    /\ BulkRan /\ ~dry_run /\ pc = "exit"
    /\ file.header = StdHeader
    /\ file.lines = << <<sIT1, sStatus, sDone>>, <<sIT2, sPriority, sEmpty>> >>
    /\ out[Len(out)] = Summary(1, 1)
    /\ Confirmed(1)

\* the row of line i holds an update request: its three values are there
IsRequest(i) ==
    LET r == ReadRow(file.header, file.lines[i])
    IN  ~r.raised /\ ~MissingRequired(r)

\* C12: under dry run no request is issued and no call of
\* update_field_value is made; set_field reports that it would set the
\* field and ends with status 0, and bulk_update reports every request it
\* passed as a would-be update and counts it as updated.
C12_DryRun ==
    (dry_run /\ gh_auth) =>
        /\ calls = <<>>
        /\ attempts = <<>>
        /\ server_values = NoValues
        /\ (cmd = "set-field" /\ Len(argv) >= 3 /\ pc = "exit") =>
               /\ out = <<Printed("dry_run_set", 0, NoExc)>>
               /\ exit_code = 0
        /\ BulkRan =>
               /\ \A i \in RowsDone :
                      IsRequest(i) =>
                          \E o \in 1..Len(out) :
                              out[o] = Printed("row_dry_run", RowNumOf(i), NoExc)
               /\ updated = Cardinality({i \in RowsDone : IsRequest(i)})

\* a dry run over a file of two requests has ended
C12_Witness ==
    /\ dry_run /\ BulkRan /\ pc = "exit"
    /\ Cardinality(DataLines) = 2
    /\ \A i \in DataLines : IsRequest(i)
    /\ updated = 2
    /\ calls = <<>>

\* C13: when the update of a set-field run fails, whatever the error, the
\* process ends with a non-zero exit status and prints no success line.
C13_SetFieldAborts ==
    \A k \in 1..Len(attempts) :
        (cmd = "set-field" /\ attempts[k].state = "raised") =>
            /\ pc = "exit"
            /\ exit_code # 0
            /\ \A o \in 1..Len(out) : out[o].kind # "field_updated"
            /\ out[Len(out)] = Printed("field_update_failed", 0, attempts[k].exc)

\* a set-field run ended on a value that is no number
C13_Witness ==
    /\ cmd = "set-field" /\ ~dry_run /\ pc = "exit"
    /\ Len(attempts) = 1
    /\ attempts[1].state = "raised"
    /\ attempts[1].exc = InvalidNumber(sAbc)
    /\ exit_code = 1

\* C14: when a bulk run has ended and a row of it failed with a lookup,
\* type-support or value error, the exit status of the process is not 0.
C14_BulkFailureExitStatus ==
    (BulkRan /\ pc = "exit"
       /\ \E k \in 1..Len(attempts) :
              /\ attempts[k].state = "raised"
              /\ attempts[k].exc.kind \in DispatchErrors) =>
        exit_code # 0

\* the requests of call k of update_field_value, in the order issued
CallsOf(k) == SelectSeq(calls, LAMBDA c : c.attempt = k)

OpsOf(k) == [i \in 1..Len(CallsOf(k)) |-> CallsOf(k)[i].op]

RemoteOps ==
    {"get_project_id", "get_project_fields", "updateProjectV2ItemFieldValue"}

\* a request that failed is the last one of its call, which raised
FailureEnds(k) ==
    \A i \in 1..Len(CallsOf(k)) :
        CallsOf(k)[i].outcome # "ok" =>
            /\ i = Len(CallsOf(k))
            /\ attempts[k].state = "raised"
            /\ attempts[k].exc = OutcomeExc(CallsOf(k)[i].outcome)
            /\ attempts[k].exc.kind \notin DispatchErrors

\* C15: a call of update_field_value issues each of its requests (project
\* id, fields, mutation) at most once, and a failed request ends it.
C15_EachRequestOnce ==
    \A k \in 1..Len(attempts) :
        /\ \A op \in RemoteOps :
               Cardinality({i \in 1..Len(OpsOf(k)) : OpsOf(k)[i] = op}) <= 1
        /\ FailureEnds(k)

\* what a call of update_field_value asks for when nothing fails
FullOps ==
    <<"get_project_id", "get_project_id", "get_project_fields",
      "updateProjectV2ItemFieldValue">>

\* C15, amended: a call of update_field_value asks for the project id twice
\* (itself, then get_project_fields), for the fields at most once and sends
\* at most one mutation, in this order; a request that failed is the last
\* one of the call, which raises the executor's error: nothing is asked
\* again.
C15_NoRetry ==
    \A k \in 1..Len(attempts) :
        /\ Len(OpsOf(k)) <= Len(FullOps)
        /\ OpsOf(k) = SubSeq(FullOps, 1, Len(OpsOf(k)))
        /\ Cardinality(MutationsOf(k)) <= 1
        /\ FailureEnds(k)

\* the executor failed on the mutation of a row; the run went on to its end
C15_Witness ==
    /\ BulkRan /\ pc = "exit" /\ SummaryPrinted
    /\ \E k \in 1..Len(attempts) :
           /\ OpsOf(k) = FullOps
           /\ CallsOf(k)[4].outcome = "error"
           /\ attempts[k].state = "raised"
           /\ attempts[k].exc = ExecutorError

\* C18: in a bulk run every request issued after a confirmed mutation is
\* issued at least the sleep of a row later than that mutation, and every
\* row updated so far has had its sleep once the loop is back at its head.
C18_DelayAfterSuccess ==
    (BulkRan /\ ~dry_run) =>
        /\ \A c, d \in 1..Len(calls) :
               (/\ c < d
                /\ calls[c].op = "updateProjectV2ItemFieldValue"
                /\ calls[c].outcome = "ok") =>
                   calls[d].at >= calls[c].at + SleepTime
        /\ pc = "bulk_sleep" => now = (updated - 1) * SleepTime
        /\ pc # "bulk_sleep" => now = updated * SleepTime

\* two rows were updated, the requests of the second after the sleep
C18_Witness ==
    /\ BulkRan /\ ~dry_run
    /\ Len(attempts) = 2
    /\ Confirmed(1) /\ Confirmed(2)
    /\ \A c \in 1..Len(calls) :
           calls[c].at = (IF calls[c].attempt = 1 THEN 0 ELSE SleepTime)

\* the values the server holds after the mutations it applied, in order
ValuesApplied == ValuesWithout(0, Len(calls))

\* C19: once SIGINT has arrived the process has ended with status 130 and
\* has issued no request since; every call of update_field_value, ended by
\* the signal or not, has sent at most one mutation, and the values on the
\* server are those of the mutations the server applied, each as a whole:
\* what was applied before the signal is still there.
C19_InterruptLeavesNoPartial ==
    /\ \A k \in 1..Len(attempts) : Cardinality(MutationsOf(k)) <= 1
    /\ server_values = ValuesApplied
    /\ sigint_at # NoSignal =>
           /\ pc = "exit"
           /\ exit_code = 130
           /\ Len(calls) = sigint_at
           /\ \A i \in DataLines : i > line => ~RowDispatched(i)

\* the first row was updated; the signal came while the mutation of the
\* second was in flight, and the server had applied it
C19_Witness ==
    /\ BulkRan /\ ~dry_run
    /\ sigint_at # NoSignal
    /\ Len(attempts) = 2
    /\ Confirmed(1)
    /\ attempts[2].state = "interrupted" /\ attempts[2].sent
    /\ Cardinality(DOMAIN server_values) = 2

(***************************************************************************)
(* Properties of the catalog a call works from, with the project changing  *)
(* on the server during the run.                                           *)
(***************************************************************************)
\* the fields queries of call k that were answered
FetchOf(k) ==
    {f \in 1..Len(calls) : /\ calls[f].attempt = k
                           /\ calls[f].op = "get_project_fields"
                           /\ calls[f].outcome = "ok"}

\* the field list the server's answer to request c holds
Snapshot(c) == get_project_fields(FieldsPage(calls[c].server))

\* the ids of mutation m are those of a field of cat named as call k asked,
\* and of an option or iteration of it named as the value
IdsFrom(cat, k, m) ==
    \E i \in 1..Len(cat) :
        /\ cat[i].name = attempts[k].req.field_name
        /\ cat[i].id = m.vars["fieldId"]
        /\ m.doc = "singleSelectOptionId" =>
               \E o \in 1..Len(cat[i].options) :
                   /\ cat[i].options[o].id = m.vars["optionId"]
                   /\ cat[i].options[o].name = attempts[k].req.value
        /\ m.doc = "iterationId" =>
               \E o \in 1..Len(cat[i].iterations) :
                   /\ cat[i].iterations[o].id = m.vars["iterationId"]
                   /\ cat[i].iterations[o].title = attempts[k].req.value

\* C16: every call of update_field_value that got its fields got them by a
\* fields query of its own, issued after every request of the calls before
\* it; the mutation it sends comes after that query and takes its field id
\* and its option or iteration id from the answer to that query: a run
\* fetches the fields once per row that reaches the lookup.
C16_FreshCatalog ==
    /\ \A k \in 1..Len(attempts) :
           /\ attempts[k].fetched =>
                  /\ Cardinality(FetchOf(k)) = 1
                  /\ \A f \in FetchOf(k) :
                         /\ attempts[k].fields = Snapshot(f)
                         /\ \A c \in 1..Len(calls) :
                                calls[c].attempt < k => c < f
           /\ \A c \in MutationsOf(k) :
                  \E f \in FetchOf(k) :
                      f < c /\ IdsFrom(Snapshot(f), k, calls[c])
    /\ Cardinality({f \in 1..Len(calls) :
                        /\ calls[f].op = "get_project_fields"
                        /\ calls[f].outcome = "ok"})
           = Cardinality({k \in 1..Len(attempts) : attempts[k].fetched})

\* two rows set Status to Done; the option was recreated between them and
\* the second row carries the new id
C16_Witness ==
    /\ Len(attempts) = 2
    /\ Confirmed(1) /\ Confirmed(2)
    /\ attempts[1].req.field_name = sStatus /\ attempts[1].req.value = sDone
    /\ attempts[2].req.field_name = sStatus /\ attempts[2].req.value = sDone
    /\ attempts[1].vars["optionId"] = "o2"
    /\ attempts[2].vars["optionId"] = "o7"

\* the ids the option list of field field_id in cat gives to name
AssignedIds(cat, field_id, name) ==
    UNION {{cat[i].options[o].id :
                o \in {o \in 1..Len(cat[i].options) :
                           cat[i].options[o].name = name}} :
           i \in {i \in 1..Len(cat) : cat[i].id = field_id}}

\* the id of the first option of field field_id in cat named name
FirstAssignedId(cat, field_id, name) ==
    LET i == FirstOf({i \in 1..Len(cat) : cat[i].id = field_id})
        o == FirstOf({o \in 1..Len(cat[i].options) :
                          cat[i].options[o].name = name})
    IN  cat[i].options[o].id

\* C17: the option id of a mutation is an id the server's option list of
\* the field gives to the requested name when the mutation reaches the
\* server.
C17_NeverStale ==
    \A c \in 1..Len(calls) :
        (/\ calls[c].op = "updateProjectV2ItemFieldValue"
         /\ calls[c].doc = "singleSelectOptionId"
         /\ calls[c].attempt > 0) =>
            calls[c].vars["optionId"] \in
                AssignedIds(Snapshot(c), calls[c].vars["fieldId"],
                            attempts[calls[c].attempt].req.value)

\* C17, amended: the option id of a mutation is the id of the first option
\* with the requested name in the option list the server held when the same
\* call fetched the fields.
C17_FreshAsOfFetch ==
    \A k \in 1..Len(attempts) :
        \A c \in MutationsOf(k) :
            calls[c].doc = "singleSelectOptionId" =>
                \E f \in FetchOf(k) :
                    /\ f < c
                    /\ AssignedIds(Snapshot(f), calls[c].vars["fieldId"],
                                   attempts[k].req.value) # {}
                    /\ calls[c].vars["optionId"] =
                           FirstAssignedId(Snapshot(f), calls[c].vars["fieldId"],
                                           attempts[k].req.value)

\* the option was recreated between the fetch and the mutation of a call:
\* the mutation reached the server with the id of the deleted option
C17_Witness ==
    \E k \in 1..Len(attempts) :
        \E c \in MutationsOf(k) :
            \E f \in FetchOf(k) :
                /\ calls[f].server = MainCatalog
                /\ calls[c].server = RecreatedCatalog
                /\ calls[c].doc = "singleSelectOptionId"
                /\ calls[c].vars["optionId"] = "o2"
                /\ calls[c].outcome = "ok"

\* call k went through the lookup and the branch on the type
Decided(k) ==
    /\ attempts[k].fetched
    /\ attempts[k].state \in {"returned", "raised"}
    /\ attempts[k].sent \/ attempts[k].exc.kind \in DispatchErrors

\* mutation_vars but for the item and the project
PayloadOf(k) ==
    [x \in DOMAIN attempts[k].vars \ {"itemId", "projectId"} |->
        attempts[k].vars[x]]

SameDecision(j, k) ==
    /\ attempts[j].sent = attempts[k].sent
    /\ attempts[j].sent =>
           /\ attempts[j].doc = attempts[k].doc
           /\ DOMAIN attempts[j].vars = DOMAIN attempts[k].vars
           /\ PayloadOf(j) = PayloadOf(k)
    /\ ~attempts[j].sent => attempts[j].exc.kind = attempts[k].exc.kind

\* C20: two calls of update_field_value of a run that fetched the same
\* field list and were given the same field name and the same value decide
\* the same: the same mutation, field id and typed value, or the same kind
\* of error, whatever the item, the row and the calls before them.
C20_PureDispatch ==
    \A j, k \in 1..Len(attempts) :
        (/\ Decided(j) /\ Decided(k)
         /\ attempts[j].fields = attempts[k].fields
         /\ attempts[j].req.field_name = attempts[k].req.field_name
         /\ attempts[j].req.value = attempts[k].req.value) =>
            SameDecision(j, k)

\* the first and the third row ask the same of the same catalog for two
\* items, with a row on another field between them
C20_Witness ==
    /\ Len(attempts) = 3
    /\ Decided(1) /\ Decided(2) /\ Decided(3)
    /\ attempts[1].fields = attempts[3].fields
    /\ attempts[1].req.field_name = attempts[3].req.field_name
    /\ attempts[1].req.value = attempts[3].req.value
    /\ attempts[1].req.item_id # attempts[3].req.item_id
    /\ attempts[2].req.field_name # attempts[1].req.field_name
    /\ attempts[1].sent /\ attempts[3].sent

\* C21: whatever the number of fields of the project, a field of the
\* project with the requested name is in the field list the call works
\* from, and the call does not report the name as not found.
C21_AllFieldsFound ==
    \A k \in 1..Len(attempts) :
        (/\ Dispatched(attempts[k])
         /\ \E i \in 1..Len(server_fields) :
                server_fields[i].name = attempts[k].req.field_name) =>
            /\ \E i \in 1..Len(attempts[k].fields) :
                   attempts[k].fields[i].name = attempts[k].req.field_name
            /\ attempts[k].exc.kind # "FieldNotFound"

\* the value passes the check of the type of the field the request is about
ValueFits(a) ==
    LET v == a.req.value
        f == Matched(a)
    IN  CASE f.data_type = "TEXT" -> TRUE
          [] f.data_type = "NUMBER" -> IsFloatLiteral(v)
          [] f.data_type = "DATE" ->
                \/ IsoShape(v)
                \/ Len(v) = 11 /\ v[11] = "\n" /\ IsoShape(SubSeq(v, 1, 10))
          [] f.data_type = "SINGLE_SELECT" ->
                \E o \in 1..Len(f.options) : f.options[o].name = v
          [] f.data_type = "ITERATION" ->
                \E o \in 1..Len(f.iterations) : f.iterations[o].title = v
          [] OTHER -> FALSE

\* the error of the first check that fails: lookup, type support, value
FirstFailure(a) ==
    IF NameMatches(a) = {} THEN "FieldNotFound"
    ELSE IF Matched(a).data_type \notin HandledTypes THEN "UnsupportedFieldType"
    ELSE IF ValueFits(a) THEN ""
    ELSE CASE Matched(a).data_type = "NUMBER" -> "InvalidNumber"
           [] Matched(a).data_type = "DATE" -> "InvalidDate"
           [] Matched(a).data_type = "SINGLE_SELECT" -> "OptionNotFound"
           [] Matched(a).data_type = "ITERATION" -> "IterationNotFound"

\* C25: the checks come in the order lookup, type support, value: a call
\* sends its mutation iff all three pass, and otherwise raises the error of
\* the first that fails, whatever the later ones would say; one failure
\* line is printed, with that error.
C25_CheckOrder ==
    \A k \in 1..Len(attempts) :
        LET a == attempts[k]
        IN  Dispatched(a) =>
                /\ a.sent <=> FirstFailure(a) = ""
                /\ ~a.sent =>
                       /\ a.state = "raised"
                       /\ a.exc.kind = FirstFailure(a)
                       /\ Cardinality({o \in 1..Len(out) :
                              out[o].kind = "field_update_failed"}) = 1
                       /\ out[Len(out)] = Printed("field_update_failed", 0, a.exc)

\* the empty string, which no number, date, option or iteration check
\* takes, is asked of a TITLE field: the error is the one of the type
C25_Witness ==
    \E k \in 1..Len(attempts) :
        LET a == attempts[k]
        IN  /\ Dispatched(a) /\ NameMatches(a) # {}
            /\ Matched(a).data_type = "TITLE"
            /\ a.req.value = sEmpty
            /\ a.exc.kind = "UnsupportedFieldType"
            /\ pc = "exit"

\* the variable that carries the typed value of a field of the type, and
\* the mutation document of the type
TypedVariable(data_type) ==
    CASE data_type \in {"TEXT", "NUMBER", "DATE"} -> "value"
      [] data_type = "SINGLE_SELECT" -> "optionId"
      [] data_type = "ITERATION" -> "iterationId"

DocumentOf(data_type) ==
    CASE data_type = "TEXT" -> "text"
      [] data_type = "NUMBER" -> "number"
      [] data_type = "DATE" -> "date"
      [] data_type = "SINGLE_SELECT" -> "singleSelectOptionId"
      [] data_type = "ITERATION" -> "iterationId"

\* C28: every mutation built, and every mutation request sent, carries
\* exactly projectId, itemId, fieldId and the one typed-value variable of
\* the matched field's type, in the document of that type, with fieldId the
\* id of the first field of the catalog whose name is the requested one.
C28_MutationShape ==
    \A k \in 1..Len(attempts) :
        LET a == attempts[k]
        IN  (Dispatched(a) /\ a.sent) =>
                /\ NameMatches(a) # {}
                /\ DOMAIN a.vars = {"projectId", "itemId", "fieldId",
                                    TypedVariable(Matched(a).data_type)}
                /\ a.doc = DocumentOf(Matched(a).data_type)
                /\ a.vars["fieldId"] = Matched(a).id
                /\ a.vars["itemId"] = a.req.item_id
                /\ a.vars["projectId"] = project_id
                /\ \A c \in MutationsOf(k) :
                       calls[c].doc = a.doc /\ calls[c].vars = a.vars

\* two fields of the catalog have the requested name, a TEXT one and then
\* a NUMBER one: the mutation sent is the text one, on the first field
C28_Witness ==
    \E k \in 1..Len(attempts) :
        LET a == attempts[k]
        IN  /\ Dispatched(a) /\ a.sent
            /\ Cardinality(NameMatches(a)) = 2
            /\ MutationsOf(k) # {}
            /\ a.doc = "text"
            /\ a.vars["fieldId"] = "PVTF_7"

\* the dispatcher, asked for the row of line i on the project as it is on
\* the server, raises instead of building a mutation
WouldFail(i) ==
    LET r == ReadRow(file.header, file.lines[i])
    IN  ~BuildMutation(ProjectId, get_project_fields(FieldsPage(server_fields)),
                       r.item_id, r.field_name, r.value).ok

RowPrinted(kind, i) ==
    \E o \in 1..Len(out) : out[o].kind = kind /\ out[o].row = RowNumOf(i)

\* C26: a dry run of bulk-update counts every row with the three cells
\* non-empty as updated, without the dispatcher and without reading the
\* project: the tally is the number of such rows, whatever fields they
\* name. A row whose field does not exist or whose value is invalid is
\* counted updated in a dry run and failed in a real run.
C26_DryRunTally ==
    (BulkRan /\ SummaryPrinted) =>
        /\ dry_run =>
               /\ attempts = <<>> /\ calls = <<>> /\ fields = <<>>
               /\ updated = Cardinality({i \in DataLines : IsRequest(i)})
               /\ failed = Cardinality({i \in DataLines : ~IsRequest(i)})
        /\ \A i \in DataLines :
               (IsRequest(i) /\ WouldFail(i)) =>
                   IF dry_run
                   THEN RowPrinted("row_dry_run", i) /\ ~RowPrinted("row_failed", i)
                   ELSE RowPrinted("row_failed", i) /\ ~RowPrinted("row_updated", i)
                        /\ failed >= 1

\* a dry run has ended over a row with an invalid number and a row that
\* names a field the project does not have: both are counted updated
C26_Witness ==
    /\ dry_run /\ BulkRan /\ SummaryPrinted
    /\ file.header = StdHeader
    /\ file.lines = << <<sIT1, sPoints, sAbc>>, <<sHi, sX, sIT2, sNotes>> >>
    /\ \A i \in DataLines : IsRequest(i) /\ WouldFail(i)
    /\ updated = 2 /\ failed = 0

\* s has no whitespace at either end
Trimmed(s) == s = <<>> \/ (s[1] \notin Whitespace /\ s[Len(s)] \notin Whitespace)

\* s is what is left of the cell between its leading and trailing whitespace
IsTrimOf(s, cell) ==
    /\ Trimmed(s)
    /\ \E lead \in 0..Len(cell) :
           /\ lead + Len(s) <= Len(cell)
           /\ SubSeq(cell, lead + 1, lead + Len(s)) = s
           /\ \A p \in (1..lead) \cup ((lead + Len(s) + 1)..Len(cell)) :
                  cell[p] \in Whitespace

CellOf(i, key) == file.lines[i][ColumnOf(key)]

HasCells(i) ==
    \A key \in {"item_id", "field_name", "value"} :
        ColumnOf(key) \in 1..Len(file.lines[i])

\* C29: bulk-update hands update_field_value the cells of the row with
\* their leading and trailing whitespace removed, and takes a row with a
\* cell of whitespace only as a row with a missing field; the value of a
\* TEXT field is in the payload as it is in the file only when the cell has
\* no whitespace at its ends. set-field hands over its arguments unchanged.
C29_BulkStrips ==
    /\ \A k \in 1..Len(attempts) :
           LET a == attempts[k]
           IN  IF cmd = "bulk-update"
               THEN /\ HasCells(a.line)
                    /\ IsTrimOf(a.req.item_id, CellOf(a.line, "item_id"))
                    /\ IsTrimOf(a.req.field_name, CellOf(a.line, "field_name"))
                    /\ IsTrimOf(a.req.value, CellOf(a.line, "value"))
                    /\ a.req.value # <<>>
                    /\ OfType(a, "TEXT") =>
                           (a.vars["value"] = PyStr(CellOf(a.line, "value"))
                                <=> Trimmed(CellOf(a.line, "value")))
               ELSE /\ a.req = Req(argv[1], argv[2], argv[3])
                    /\ OfType(a, "TEXT") => a.vars["value"] = PyStr(argv[3])
    /\ BulkRan =>
           \A i \in RowsDone :
               (/\ HasCells(i)
                /\ \E key \in {"item_id", "field_name", "value"} :
                       \A p \in 1..Len(CellOf(i, key)) :
                           CellOf(i, key)[p] \in Whitespace) =>
                   RowPrinted("row_missing", i) /\ ~RowDispatched(i)

\* a row with padded cells has been sent: the TEXT payload is the value
\* without its padding, for the item and the field without theirs
C29_Witness ==
    \E k \in 1..Len(attempts) :
        LET a == attempts[k]
        IN  /\ cmd = "bulk-update" /\ OfType(a, "TEXT")
            /\ CellOf(a.line, "value") = sHiPadded
            /\ CellOf(a.line, "field_name") = sNotesPadded
            /\ a.vars["value"] = PyStr(sHi)
            /\ a.vars["itemId"] = sIT1
            /\ a.state = "returned"

(***************************************************************************)
(* github_sub_issues.py: the sub-issue commands.  args.args holds the      *)
(* parent's number and, for the commands on two issues, the child's.       *)
(***************************************************************************)
SubCommands ==
    {"list-sub-issues", "create-sub-issue", "remove-sub-issue",
     "create-issue-as-sub"}

\* subIssues(first: 100)
SubIssuesFirst == 100

SubPrinted(kind, number) == [kind |-> kind, number |-> number]

\* one remote step: an issue query, a subIssues query, a mutation, or
\* `gh issue create`
SubCall(op, number, outcome) == [op |-> op, number |-> number, outcome |-> outcome]

SubIssuesOf(parent) == {l[2] : l \in {m \in server_issues.links : m[1] = parent}}

\* the i-th sub-issue of the connection, in the order of the numbers
NthOf(S, i) == CHOOSE x \in S : Cardinality({y \in S : y < x}) = i - 1

\* subIssues { nodes }: the first SubIssuesFirst of them
SubIssueNodes(parent) ==
    LET S == SubIssuesOf(parent)
        n == IF Cardinality(S) < SubIssuesFirst THEN Cardinality(S)
             ELSE SubIssuesFirst
    IN  [i \in 1..n |-> NthOf(S, i)]

\* the number `gh issue create` gives the new issue
NewIssueNumber(numbers) == IF numbers = {} THEN 1 ELSE Max(numbers) + 1

\* the issue create-issue-as-sub created, once it has
CreatedIssue ==
    LET c == {i \in 1..Len(calls) :
                 calls[i].op = "issue_create" /\ calls[i].outcome = "ok"}
    IN  calls[Max(c)].number

\* the answers to the issue query of _get_issue_info and list_sub_issues
IssueOutcomes(number) ==
    (IF number \in server_issues.numbers THEN {"ok"} ELSE {"not_found"})
    \cup (IF MayFail THEN {"error"} ELSE {})

\* the exception of a remote step reaches main, which prints it and
\* returns 1
SubRaise(call) ==
    /\ calls' = Append(calls, call)
    /\ faults' = IF call.outcome = "error" THEN faults + 1 ELSE faults
    /\ out' = Append(out, SubPrinted("error", call.number))
    /\ exit_code' = 1
    /\ pc' = "exit"

SubReturn(lines) ==
    /\ out' = out \o lines
    /\ exit_code' = 0
    /\ pc' = "exit"

subLocals == <<server_fields, server_values, req, project_id, fields,
               bulkCounters, now, sigint_at, attempts, pages, url, all_issues,
               result>>

\* main, up to the call of the command: GitHubSubIssues(...) checks
\* `gh auth status`
SubMain ==
    /\ pc = "main"
    /\ IF ~gh_auth
       THEN /\ out' = Append(out, SubPrinted("error", 0))
            /\ exit_code' = 1
            /\ pc' = "exit"
       ELSE /\ pc' = IF cmd = "list-sub-issues" THEN "sub_list" ELSE "sub_parent"
            /\ UNCHANGED <<out, exit_code>>
    /\ UNCHANGED <<inputVars, subLocals, server_issues, calls, faults>>

\* list_sub_issues; each output format prints one entry per node
SubList ==
    /\ pc = "sub_list"
    /\ \E o \in IssueOutcomes(argv[1]) :
        LET call == SubCall("subIssues", argv[1], o)
            total_count == Cardinality(SubIssuesOf(argv[1]))
            nodes == SubIssueNodes(argv[1])
        IN  IF o # "ok" THEN SubRaise(call)
            ELSE /\ calls' = Append(calls, call)
                 /\ UNCHANGED faults
                 /\ IF total_count = 0
                    THEN SubReturn(<<SubPrinted("no_sub_issues", argv[1])>>)
                    ELSE SubReturn(<<SubPrinted("found", total_count)>>
                             \o [i \in 1..Len(nodes) |->
                                    SubPrinted("sub_issue", nodes[i])])
    /\ UNCHANGED <<inputVars, subLocals, server_issues>>

\* _get_issue_info(repo, parent_number) of the three writing commands, and
\* the dry-run return of create_issue_as_sub
SubParent ==
    /\ pc = "sub_parent"
    /\ \E o \in IssueOutcomes(argv[1]) :
        LET call == SubCall("issue", argv[1], o)
        IN  IF o # "ok" THEN SubRaise(call)
            ELSE /\ calls' = Append(calls, call)
                 /\ UNCHANGED faults
                 /\ IF cmd # "create-issue-as-sub"
                    THEN pc' = "sub_child" /\ UNCHANGED <<out, exit_code>>
                    ELSE IF dry_run
                    THEN SubReturn(<<SubPrinted("dry_run", argv[1])>>)
                    ELSE pc' = "sub_issue_create" /\ UNCHANGED <<out, exit_code>>
    /\ UNCHANGED <<inputVars, subLocals, server_issues>>

\* the second read with the dry-run test left out
SubChildIgnoresDryRun ==
    /\ pc = "sub_child"
    /\ \E o \in IssueOutcomes(argv[2]) :
        LET call == SubCall("issue", argv[2], o)
        IN  IF o # "ok" THEN SubRaise(call)
            ELSE /\ calls' = Append(calls, call)
                 /\ UNCHANGED faults
                 /\ pc' = "sub_mutate"
                 /\ UNCHANGED <<out, exit_code>>
    /\ UNCHANGED <<inputVars, subLocals, server_issues>>

\* _get_issue_info(repo, child_number) of create_sub_issue and
\* remove_sub_issue, and their dry-run return
SubChild ==
    /\ pc = "sub_child"
    /\ \E o \in IssueOutcomes(argv[2]) :
        LET call == SubCall("issue", argv[2], o)
        IN  IF o # "ok" THEN SubRaise(call)
            ELSE /\ calls' = Append(calls, call)
                 /\ UNCHANGED faults
                 /\ IF dry_run
                    THEN SubReturn(<<SubPrinted("dry_run", argv[2])>>)
                    ELSE pc' = "sub_mutate" /\ UNCHANGED <<out, exit_code>>
    /\ UNCHANGED <<inputVars, subLocals, server_issues>>

\* `gh issue create`: the issue exists from then on, or the command failed
IssueCreateOutcomes == {"ok"} \cup (IF MayFail THEN {"error"} ELSE {})

SubIssueCreate ==
    /\ pc = "sub_issue_create"
    /\ \E o \in IssueCreateOutcomes :
        LET new_issue_number == NewIssueNumber(server_issues.numbers)
            call == SubCall("issue_create", new_issue_number, o)
        IN  IF o # "ok" THEN SubRaise(call) /\ UNCHANGED server_issues
            ELSE /\ calls' = Append(calls, call)
                 /\ server_issues' =
                        [server_issues EXCEPT !.numbers = @ \cup {new_issue_number}]
                 /\ out' = Append(out, SubPrinted("created", new_issue_number))
                 /\ pc' = "sub_new"
                 /\ UNCHANGED <<faults, exit_code>>
    /\ UNCHANGED <<inputVars, subLocals>>

\* the read of the new issue, deleting the issue when the read fails
SubNewRollsBack ==
    /\ pc = "sub_new"
    /\ \E o \in IssueOutcomes(CreatedIssue) :
        LET call == SubCall("issue", CreatedIssue, o)
        IN  IF o # "ok"
            THEN /\ SubRaise(call)
                 /\ server_issues' =
                        [server_issues EXCEPT !.numbers = @ \ {CreatedIssue}]
            ELSE /\ calls' = Append(calls, call)
                 /\ pc' = "sub_mutate"
                 /\ UNCHANGED <<faults, out, exit_code, server_issues>>
    /\ UNCHANGED <<inputVars, subLocals>>

\* _get_issue_info(repo, new_issue_number) of create_issue_as_sub
SubNew ==
    /\ pc = "sub_new"
    /\ \E o \in IssueOutcomes(CreatedIssue) :
        LET call == SubCall("issue", CreatedIssue, o)
        IN  IF o # "ok" THEN SubRaise(call)
            ELSE /\ calls' = Append(calls, call)
                 /\ pc' = "sub_mutate"
                 /\ UNCHANGED <<faults, out, exit_code>>
    /\ UNCHANGED <<inputVars, subLocals, server_issues>>

\* the server takes addSubIssue for an issue that is nobody's sub-issue,
\* and removeSubIssue for a link that exists
SubMutationOutcomes(op, parent, child) ==
    (IF op = "addSubIssue"
     THEN (IF \E l \in server_issues.links : l[2] = child
           THEN {"rejected"} ELSE {"ok"})
     ELSE (IF <<parent, child>> \in server_issues.links
           THEN {"ok"} ELSE {"rejected"}))
    \cup (IF MayFail THEN {"error"} ELSE {})

\* the addSubIssue or removeSubIssue mutation and the success report
SubMutate ==
    /\ pc = "sub_mutate"
    /\ LET op == IF cmd = "remove-sub-issue" THEN "removeSubIssue"
                 ELSE "addSubIssue"
           child == IF cmd = "create-issue-as-sub" THEN CreatedIssue
                    ELSE argv[2]
           link == <<argv[1], child>>
       IN  \E o \in SubMutationOutcomes(op, argv[1], child) :
            LET call == SubCall(op, child, o)
            IN  IF o # "ok" THEN SubRaise(call) /\ UNCHANGED server_issues
                ELSE /\ calls' = Append(calls, call)
                     /\ server_issues' =
                            [server_issues EXCEPT !.links =
                                IF op = "addSubIssue" THEN @ \cup {link}
                                ELSE @ \ {link}]
                     /\ SubReturn(<<SubPrinted("success", child)>>)
                     /\ UNCHANGED faults
    /\ UNCHANGED <<inputVars, subLocals>>

\* repositories: issue 1 with the n sub-issues 3..n+2, and issue 2 apart
Family(n) == Repository(1..(n + 2), {<<1, c>> : c \in 3..(n + 2)})

SubRepositories ==
    {Family(n) : n \in {0, 1, 2, SubIssuesFirst, SubIssuesFirst + 1}}
    \cup {Repository({1, 2}, {<<1, 2>>}), Repository({1}, {}),
          Repository({2}, {}), Repository({}, {})}

InitSub ==
    /\ InitRun
    /\ faults = 0
    /\ file = NoFile
    /\ server_fields = <<>>
    /\ pages = <<>> /\ url = NoUrl /\ all_issues = <<>> /\ result = NotReturned
    /\ cmd \in SubCommands
    /\ dry_run \in BOOLEAN
    /\ gh_auth \in BOOLEAN
    /\ argv = IF cmd \in {"create-sub-issue", "remove-sub-issue"}
              THEN <<1, 2>> ELSE <<1>>
    /\ server_issues \in SubRepositories

NextSub ==
    \/ SubMain
    \/ SubList
    \/ SubParent
    \/ SubChild
    \/ SubIssueCreate
    \/ SubNew
    \/ SubMutate

SpecSub == InitSub /\ [][NextSub]_vars

\* C22: with --dry-run, create-sub-issue, remove-sub-issue and
\* create-issue-as-sub change nothing: no step of theirs changes the
\* repository, and every remote step they have issued is an issue query.
C22_DryRunReadsOnly ==
    [][(dry_run /\ cmd \in SubCommands \ {"list-sub-issues"}) =>
            /\ server_issues' = server_issues
            /\ \A c \in 1..Len(calls') : calls'[c].op = "issue"]_vars

\* a dry run of create-sub-issue has read both issues and returned
C22_Witness ==
    /\ dry_run /\ cmd = "create-sub-issue" /\ pc = "exit" /\ exit_code = 0
    /\ Len(calls) = 2
    /\ out = <<SubPrinted("dry_run", argv[2])>>
    /\ server_issues.links = {}

\* C23: list-sub-issues prints as many sub-issues as the totalCount it
\* reports as found, whatever the number of sub-issues of the parent.
C23_ListsAll ==
    (cmd = "list-sub-issues" /\ pc = "exit") =>
        \A o \in 1..Len(out) :
            out[o].kind = "found" =>
                Cardinality({p \in 1..Len(out) : out[p].kind = "sub_issue"})
                    = out[o].number

\* the remote steps of create_issue_as_sub, in order
CreateAsSubSteps == <<"issue", "issue_create", "issue", "addSubIssue">>

\* C27: create-issue-as-sub reads the parent, creates the issue, reads the
\* new issue, sends addSubIssue, in this order; the step that fails is the
\* last one issued, and the run ends in failure; the issue created stays
\* in the repository, without a parent when a later step failed.
C27_CreateAsSubOrder ==
    (cmd = "create-issue-as-sub" /\ ~dry_run) =>
        /\ Len(calls) <= Len(CreateAsSubSteps)
        /\ \A c \in 1..Len(calls) :
               /\ calls[c].op = CreateAsSubSteps[c]
               /\ calls[c].number = IF c = 1 THEN argv[1] ELSE calls[2].number
               /\ c < Len(calls) => calls[c].outcome = "ok"
               /\ calls[c].outcome # "ok" => pc = "exit" /\ exit_code = 1
        /\ (pc = "exit" /\ exit_code = 0) =>
               Len(calls) = Len(CreateAsSubSteps)
        /\ (Len(calls) >= 2 /\ calls[2].outcome = "ok") =>
               /\ calls[2].number \in server_issues.numbers
               /\ <<argv[1], calls[2].number>> \in server_issues.links
                      <=> (Len(calls) = 4 /\ calls[4].outcome = "ok")

\* the addSubIssue of a run that created its issue has failed: the issue
\* is in the repository and is nobody's sub-issue
C27_Witness ==
    /\ cmd = "create-issue-as-sub" /\ pc = "exit" /\ exit_code = 1
    /\ Len(calls) = 4 /\ calls[4].outcome = "error"
    /\ calls[2].number \in server_issues.numbers
    /\ \A l \in server_issues.links : l[2] # calls[2].number

(***************************************************************************)
(* gh_list_issues.py: fetch_all_issues.  A url is the index of its page    *)
(* in `pages`; the first page is the one of GITHUB_API_URL.                *)
(***************************************************************************)
MaxPages == 3

\* a response: its status, its issues, and the url of its 'next' link
Response(status, issues, next) ==
    [status |-> status, issues |-> issues, next |-> next]

FetchCall(u, status) == [op |-> "GET", url |-> u, outcome |-> status]

fetchLocals == <<server_fields, server_values, faults, req, project_id,
                 fields, bulkCounters, now, sigint_at, attempts, out,
                 server_issues>>

\* url, params and all_issues before the loop
FetchStart ==
    /\ pc = "main"
    /\ url' = 1
    /\ all_issues' = <<>>
    /\ pc' = "fetch_loop"
    /\ UNCHANGED <<inputVars, fetchLocals, pages, result, calls, exit_code>>

\* one pass of the loop that takes the response whatever its status
FetchPageIgnoresStatus ==
    /\ pc = "fetch_loop"
    /\ url # NoUrl
    /\ LET response == pages[url]
       IN  /\ calls' = Append(calls, FetchCall(url, response.status))
           /\ all_issues' = all_issues \o response.issues
           /\ url' = response.next
           /\ UNCHANGED <<pc, exit_code>>
    /\ UNCHANGED <<inputVars, fetchLocals, pages, result>>

\* one pass of the while loop: the request, raise_for_status, extend, and
\* the next url
FetchPage ==
    /\ pc = "fetch_loop"
    /\ url # NoUrl
    /\ LET response == pages[url]
       IN  /\ calls' = Append(calls, FetchCall(url, response.status))
           /\ IF response.status # "ok"
              THEN /\ pc' = "exit"
                   /\ exit_code' = 1
                   /\ UNCHANGED <<url, all_issues>>
              ELSE /\ all_issues' = all_issues \o response.issues
                   /\ url' = response.next
                   /\ UNCHANGED <<pc, exit_code>>
    /\ UNCHANGED <<inputVars, fetchLocals, pages, result>>

\* `while url` ends the loop: return all_issues
FetchReturn ==
    /\ pc = "fetch_loop"
    /\ url = NoUrl
    /\ result' = [returned |-> TRUE, issues |-> all_issues]
    /\ pc' = "exit"
    /\ exit_code' = 0
    /\ UNCHANGED <<inputVars, fetchLocals, pages, url, all_issues, calls>>

\* the issues of page i: as many as the page holds, none of another page
IssuesOfPage(i, count) == [k \in 1..count |-> <<i, k>>]

\* servers: chains of one to MaxPages pages, each linked to the next, with
\* zero to two issues a page, any of them answering with an error status
Chains ==
    UNION {
        {[i \in 1..n |->
            Response(status[i], IssuesOfPage(i, count[i]),
                     IF i < n THEN i + 1 ELSE NoUrl)] :
            status \in [1..n -> {"ok", "error"}], count \in [1..n -> 0..2]} :
        n \in 1..MaxPages}

InitFetch ==
    /\ InitRun
    /\ faults = 0
    /\ cmd = "gh_list_issues"
    /\ dry_run = FALSE
    /\ gh_auth = TRUE
    /\ argv = <<>>
    /\ file = NoFile
    /\ server_fields = <<>>
    /\ server_issues = Repository({}, {})
    /\ url = NoUrl /\ all_issues = <<>> /\ result = NotReturned
    /\ pages \in Chains

NextFetch ==
    \/ FetchStart
    \/ FetchPage
    \/ FetchReturn

\* the loop is the only thread: it takes its next step
SpecFetch == InitFetch /\ [][NextFetch]_vars /\ WF_vars(NextFetch)

RECURSIVE IssuesUpTo(_)
\* the issues of pages 1..n, in page order
IssuesUpTo(n) ==
    IF n = 0 THEN <<>> ELSE IssuesUpTo(n - 1) \o pages[n].issues

\* the pages whose response is not a success
FailingPages == {i \in 1..Len(pages) : pages[i].status # "ok"}

\* the pages on the way from the first page along the next links, up to the
\* first failing one
PagesOnTheWay ==
    IF FailingPages = {} THEN Len(pages) ELSE Min(FailingPages)

\* C24: fetch_all_issues requests the first page and then the page of each
\* next link, each once and in order; it stops at the first response with
\* no next link and returns the issues of all pages in page order; a
\* response that is not a success ends it with nothing returned; and on
\* every finite chain it ends.
C24_Pagination ==
    /\ [](/\ Len(calls) <= PagesOnTheWay
          /\ \A c \in 1..Len(calls) : calls[c].url = c
          /\ result.returned =>
                 /\ FailingPages = {}
                 /\ Len(calls) = Len(pages)
                 /\ result.issues = IssuesUpTo(Len(pages))
          /\ pc = "exit" =>
                 /\ Len(calls) = PagesOnTheWay
                 /\ result.returned <=> FailingPages = {}
                 /\ exit_code = IF FailingPages = {} THEN 0 ELSE 1)
    /\ <>(pc = "exit")

\* three pages with issues on the first and the last have been fetched and
\* returned in order
C24_Witness ==
    /\ Len(pages) = 3 /\ pc = "exit" /\ result.returned
    /\ Len(calls) = 3
    /\ result.issues = <<<<1, 1>>, <<1, 2>>, <<3, 1>>>>

====
